---- MODULE Spec2Model ----
(***************************************************************************)
(* Fantasy Auction Assistant: the draft state store (backend/state.py),    *)
(* the manual-override and draft_update handlers and the startup replay    *)
(* (backend/server.py), the append-only event log (backend/event_store.py),*)
(* the valuation engine (backend/engine.py) and the AI advisor with its    *)
(* cache and in-flight set (backend/ai_advisor.py).                        *)
(*                                                                         *)
(* Money and projected points are integers; fair values are kept in tenths *)
(* (the code rounds them to one decimal).  The inflation factor is kept as *)
(* the exact fraction <<cash, aav>>.  Strings are an explicit finite       *)
(* alphabet; lower(), strip(), rstrip(".") and the resolver's              *)
(* normalisation are tables over that alphabet.                            *)
(***************************************************************************)
EXTENDS Integers, Sequences, FiniteSets, TLC

VARIABLES state, es, disk, buf, pc, req, acked, lastOp, ret

vars == <<state, es, disk, buf, pc, req, acked, lastOp, ret>>

\* Python's None
None == "<None>"

(***************************************************************************)
(* Bounds of the model                                                     *)
(***************************************************************************)
\* longest draftLog carried by one update
MaxLog == 2
\* most records the event log file may hold
MaxEvents == 2
\* most lines of a log file found at startup in the log specification
MaxLines == 3
\* most players of one position in the position-group specification
MaxGroup == 3
\* most advice requests in progress at once in the advisor specification
MaxRequests == 2
\* most minutes the clock of the advisor specification advances
MaxMinutes == 2
\* most players of one (position, tier) group in the scarcity specification
MaxTierGroup == 20
\* largest value the sequence counter of the event log takes
MaxSeq == 6

(***************************************************************************)
(* Settings (config.py)                                                    *)
(***************************************************************************)
budget == 200
league_size == 10
my_team_name == "My Team"

\* settings.parsed_roster_slots for ROSTER_SLOTS="QB,RB,FLEX,BENCH"
parsed_roster_slots == <<"QB", "RB", "FLEX", "BENCH">>

RosterSlots == {parsed_roster_slots[i] : i \in 1..Len(parsed_roster_slots)}

\* settings.slot_base_type: label with its trailing digits stripped
slot_base_type(label) == label

\* SPORT_PROFILES["football"]["slot_eligibility"]
SLOT_ELIGIBILITY(base) ==
    CASE base = "QB" -> {"QB"}
      [] base = "RB" -> {"RB"}
      [] base = "WR" -> {"WR"}
      [] base = "TE" -> {"TE"}
      [] base = "K" -> {"K"}
      [] base = "DEF" -> {"DEF"}
      [] base = "FLEX" -> {"RB", "WR", "TE"}
      [] base = "SUPERFLEX" -> {"QB", "RB", "WR", "TE"}
      [] base = "BENCH" -> {"QB", "RB", "WR", "TE", "K", "DEF"}
      [] OTHER -> {base}

\* settings.vorp_baselines
vorp_baselines(pos) ==
    CASE pos = "QB" -> 11
      [] pos = "RB" -> 30
      [] pos = "WR" -> 30
      [] pos = "TE" -> 11
      [] OTHER -> 1

(***************************************************************************)
(* Strings                                                                 *)
(***************************************************************************)
\* str.lower()
StrLower(s) ==
    CASE s = "Bijan Robinson" -> "bijan robinson"
      [] s = "Travis Etienne" -> "travis etienne"
      [] s = "Travis Etienne Jr." -> "travis etienne jr."
      [] s = "Josh Allen" -> "josh allen"
      [] s = "Jalen Hurts" -> "jalen hurts"
      [] s = "Nobody Atall" -> "nobody atall"
      [] s = "My Team" -> "my team"
      [] s = "Team Alpha" -> "team alpha"
      [] s = "Unknown" -> "unknown"
      [] OTHER -> s

\* str.strip(): no string of the alphabet has outer whitespace
StrStrip(s) == s

\* str.rstrip(".")
StrRstripDot(s) ==
    CASE s = "travis etienne jr." -> "travis etienne jr"
      [] s = "Travis Etienne Jr." -> "Travis Etienne Jr"
      [] OTHER -> s

\* str(team_id)
Str(id) ==
    CASE id = 1 -> "1"
      [] id = 2 -> "2"
      [] id = 3 -> "3"
      [] OTHER -> None

\* DraftState._normalize_name: lowercase, strip, drop trailing periods
NormalizeName(name) == StrRstripDot(StrStrip(StrLower(name)))

(***************************************************************************)
(* The projection sheet, in file order                                     *)
(***************************************************************************)
Sheet ==
    << [player_name |-> "Bijan Robinson", position |-> "RB",
        projected_points |-> 250, baseline_aav |-> 42, tier |-> 1],
       [player_name |-> "Travis Etienne", position |-> "RB",
        projected_points |-> 200, baseline_aav |-> 30, tier |-> 2],
       [player_name |-> "Josh Allen", position |-> "QB",
        projected_points |-> 370, baseline_aav |-> 22, tier |-> 1],
       [player_name |-> "Jalen Hurts", position |-> "QB",
        projected_points |-> 340, baseline_aav |-> 15, tier |-> 2] >>

\* keys of DraftState.players, in insertion order
PlayerKeys == [i \in 1..Len(Sheet) |-> NormalizeName(Sheet[i].player_name)]

Keys == {PlayerKeys[i] : i \in 1..Len(Sheet)}

Projection(key) == Sheet[CHOOSE i \in 1..Len(Sheet) : PlayerKeys[i] = key]

(***************************************************************************)
(* Name resolver (fuzzy_match.py)                                          *)
(***************************************************************************)
FUZZY_THRESHOLD == 82

\* normalize_name: lowercase, drop . - ', drop a generational suffix,
\* collapse spaces
normalize_name(name) ==
    CASE name \in {"Travis Etienne Jr.", "travis etienne jr.",
                   "travis etienne jr", "Travis Etienne Jr"}
           -> "travis etienne"
      [] OTHER -> StrStrip(StrLower(name))

\* fuzz.token_sort_ratio on the normalised forms, rounded down
token_sort_ratio(a, b) ==
    CASE a = b -> 100
      [] a = "nobody atall" /\ b = "bijan robinson" -> 38
      [] a = "nobody atall" /\ b = "travis etienne" -> 15
      [] a = "nobody atall" /\ b = "josh allen" -> 45
      [] a = "nobody atall" /\ b = "jalen hurts" -> 34
      [] OTHER -> 0

\* NameResolver._corpus after build_index: (normalised name, canonical key)
Corpus == [i \in 1..Len(Sheet) |->
             <<normalize_name(Sheet[i].player_name), PlayerKeys[i]>>]

\* NameResolver._normalized_to_canonical as a lookup (later rows overwrite)
NormalizedToCanonical(a) ==
    LET hitsA == {i \in 1..Len(Sheet) : Corpus[i][1] = a}
        hitsK == {i \in 1..Len(Sheet) :
                    PlayerKeys[i] = a /\ PlayerKeys[i] # Corpus[i][1]}
        hits == hitsA \cup hitsK
    IN IF hits = {} THEN None
       ELSE PlayerKeys[CHOOSE i \in hits : \A j \in hits : j <= i]

\* process.extractOne: best score at or above the cutoff, first on ties
ExtractOne(a) ==
    LET ok == {i \in 1..Len(Sheet) :
                 token_sort_ratio(a, Corpus[i][1]) >= FUZZY_THRESHOLD}
    IN IF ok = {} THEN 0
       ELSE CHOOSE i \in ok :
              \A j \in ok :
                 \/ token_sort_ratio(a, Corpus[i][1]) > token_sort_ratio(a, Corpus[j][1])
                 \/ /\ token_sort_ratio(a, Corpus[i][1]) = token_sort_ratio(a, Corpus[j][1])
                    /\ i <= j

\* NameResolver.resolve (the cache only memoises this result)
Resolve(incoming_name) ==
    IF incoming_name = "" \/ incoming_name = None THEN None
    ELSE LET aggressive == normalize_name(incoming_name)
         IN IF NormalizedToCanonical(aggressive) # None
            THEN NormalizedToCanonical(aggressive)
            ELSE IF ExtractOne(aggressive) # 0
                 THEN Corpus[ExtractOne(aggressive)][2]
                 ELSE None

(***************************************************************************)
(* MyTeamState (models.py)                                                 *)
(***************************************************************************)
\* MyTeamState.roster_spots_remaining
roster_spots_remaining(my_team) ==
    Cardinality({sl \in RosterSlots : my_team.roster[sl] = None})

\* max_bid that reserves a dollar for the slot being filled as well
max_bidMut(my_team) == my_team.budget - roster_spots_remaining(my_team)

\* MyTeamState.max_bid
max_bid(my_team) ==
    LET empty == roster_spots_remaining(my_team)
    IN IF empty <= 1 THEN my_team.budget ELSE my_team.budget - (empty - 1)

\* MyTeamState.open_slots_for_position: empty slots accepting the position,
\* in roster order
RECURSIVE OpenSlotsFrom(_, _, _)
OpenSlotsFrom(my_team, position, i) ==
    IF i > Len(parsed_roster_slots) THEN << >>
    ELSE LET label == parsed_roster_slots[i]
             rest == OpenSlotsFrom(my_team, position, i + 1)
         IN IF /\ my_team.roster[label] = None
               /\ position \in SLOT_ELIGIBILITY(slot_base_type(label))
            THEN <<label>> \o rest
            ELSE rest

open_slots_for_position(my_team, position) ==
    OpenSlotsFrom(my_team, position, 1)

(***************************************************************************)
(* DraftState (state.py)                                                   *)
(***************************************************************************)
\* Optional[int]: << >> is None, <<v>> is the value v
Some(v) == <<v>>

NoInt == << >>

\* a dict with no entries
EmptyDict == [k \in {} |-> 0]

\* PlayerState after _load_rows, draft fields at their defaults
FreshPlayer == [is_drafted |-> FALSE, draft_price |-> NoInt, drafted_by_team |-> None]

EmptyRoster == [sl \in RosterSlots |-> None]

RECURSIVE SumAAVFrom(_, _)
SumAAVFrom(players, i) ==
    IF i > Len(Sheet) THEN 0
    ELSE (IF players[PlayerKeys[i]].is_drafted THEN 0 ELSE Sheet[i].baseline_aav)
         + SumAAVFrom(players, i + 1)

RECURSIVE SumValues(_, _)
SumValues(d, ks) ==
    IF ks = {} THEN 0
    ELSE LET k == CHOOSE x \in ks : TRUE
         IN d[k] + SumValues(d, ks \ {k})

RECURSIVE Gcd(_, _)
Gcd(a, b) == IF b = 0 THEN a ELSE Gcd(b, a % b)

\* the quotient n / d as a fraction in lowest terms
Frac(n, d) == LET g == Gcd(n, d) IN IF g = 0 THEN <<0, 1>> ELSE <<n \div g, d \div g>>

\* DraftState._recompute_aggregates
RecomputeAggregates(s) ==
    LET remaining_aav == SumAAVFrom(s.players, 1)
        cash == IF DOMAIN s.team_budgets # {}
                THEN SumValues(s.team_budgets, DOMAIN s.team_budgets)
                ELSE league_size * budget
    IN [s EXCEPT !.total_remaining_aav = remaining_aav,
                 !.total_remaining_cash = cash,
                 !.inflation_factor = IF remaining_aav > 0
                                      THEN Frac(cash, remaining_aav)
                                      ELSE <<1, 1>>]

\* DraftState.__init__ followed by _load_rows
LoadedState ==
    RecomputeAggregates(
        [players |-> [k \in Keys |-> FreshPlayer],
         team_budgets |-> EmptyDict,
         my_team |-> [budget |-> budget, total_budget |-> budget,
                      roster |-> EmptyRoster, players_acquired |-> << >>],
         total_remaining_aav |-> 0,
         total_remaining_cash |-> 0,
         inflation_factor |-> <<1, 1>>])

\* ResetState that leaves the acquisition history as it is
ResetStateMut(s) ==
    RecomputeAggregates(
        [s EXCEPT !.players = [k \in Keys |-> FreshPlayer],
                  !.team_budgets = EmptyDict,
                  !.my_team = [s.my_team EXCEPT !.budget = s.my_team.total_budget,
                                                !.roster = EmptyRoster]])

\* DraftState.reset
ResetState(s) ==
    RecomputeAggregates(
        [s EXCEPT !.players = [k \in Keys |-> FreshPlayer],
                  !.team_budgets = EmptyDict,
                  !.my_team = [s.my_team EXCEPT !.budget = s.my_team.total_budget,
                                                !.roster = EmptyRoster,
                                                !.players_acquired = << >>]])

\* DraftState._is_my_team
IsMyTeam(name) ==
    /\ name # None
    /\ name # ""
    /\ StrLower(StrStrip(my_team_name)) = StrStrip(StrLower(name))

\* DraftState._resolve_team_name
ResolveTeamName(team_id, teams) ==
    IF Str(team_id) = None THEN None
    ELSE LET hits == {i \in 1..Len(teams) : Str(teams[i].teamId) = Str(team_id)}
         IN IF hits = {} THEN Str(team_id)
            ELSE teams[CHOOSE i \in hits : \A j \in hits : i <= j].name

\* first slot of a list whose base type satisfies a test, or None
RECURSIVE FirstDedicated(_, _)
FirstDedicated(slots, pos) ==
    IF slots = << >> THEN None
    ELSE IF slot_base_type(Head(slots)) = pos THEN Head(slots)
         ELSE FirstDedicated(Tail(slots), pos)

RECURSIVE FirstNonBench(_)
FirstNonBench(slots) ==
    IF slots = << >> THEN None
    ELSE IF slot_base_type(Head(slots)) # "BENCH" THEN Head(slots)
         ELSE FirstNonBench(Tail(slots))

\* AddToMyRoster taking the last open slot, whatever its type
AddToMyRosterMut(s, entry, key) ==
    LET pos == Projection(key).position
        open_slots == open_slots_for_position(s.my_team, pos)
    IN IF open_slots = << >> THEN s
       ELSE [s EXCEPT !.my_team.roster[open_slots[Len(open_slots)]] = entry.playerName,
                      !.my_team.players_acquired =
                          Append(@, [name |-> entry.playerName, position |-> pos,
                                     price |-> entry.bidAmount])]

\* DraftState._add_to_my_roster
AddToMyRoster(s, entry, key) ==
    LET pos == Projection(key).position
        open_slots == open_slots_for_position(s.my_team, pos)
        best_slot == IF FirstDedicated(open_slots, pos) # None
                     THEN FirstDedicated(open_slots, pos)
                     ELSE IF FirstNonBench(open_slots) # None
                          THEN FirstNonBench(open_slots)
                          ELSE open_slots[1]
    IN IF open_slots = << >> THEN s
       ELSE [s EXCEPT !.my_team.roster[best_slot] = entry.playerName,
                      !.my_team.players_acquired =
                          Append(@, [name |-> entry.playerName, position |-> pos,
                                     price |-> entry.bidAmount])]

\* update_from_draft_event, lines 256-265: the budgets dict built from teams
RECURSIVE NewBudgets(_, _)
NewBudgets(teams, acc) ==
    IF teams = << >> THEN acc
    ELSE LET team == Head(teams)
             name == IF team.name \in {"Unknown", "null", "undefined", "None", ""}
                     THEN Str(team.teamId)
                     ELSE team.name
         IN IF name # None /\ name # "" /\ team.remainingBudget # NoInt
            THEN NewBudgets(Tail(teams),
                            [k \in DOMAIN acc \cup {name} |->
                               IF k = name THEN team.remainingBudget[1] ELSE acc[k]])
            ELSE NewBudgets(Tail(teams), acc)

\* EntryKey without the resolver: the normalised name as it is
EntryKeyMut(playerName) == NormalizeName(playerName)

\* update_from_draft_event, lines 270-274: the players key of an entry
EntryKey(playerName) ==
    LET name_key == NormalizeName(playerName)
    IN IF name_key \notin Keys /\ Resolve(playerName) # None
       THEN Resolve(playerName)
       ELSE name_key

\* MarkDrafted without the "not already drafted" test
MarkDraftedMut(s, entry, name_key, team_name) ==
    IF name_key \in Keys
    THEN LET s1 == [s EXCEPT !.players[name_key] =
                       [is_drafted |-> TRUE,
                        draft_price |-> Some(entry.bidAmount),
                        drafted_by_team |-> team_name]]
         IN IF team_name # None /\ IsMyTeam(team_name)
            THEN AddToMyRoster(s1, entry, name_key)
            ELSE s1
    ELSE s

\* update_from_draft_event, lines 275-283: the entry whose key and team name
\* are resolved is marked drafted, unless it is unknown or already drafted
MarkDrafted(s, entry, name_key, team_name) ==
    IF name_key \in Keys /\ ~s.players[name_key].is_drafted
    THEN LET s1 == [s EXCEPT !.players[name_key] =
                       [is_drafted |-> TRUE,
                        draft_price |-> Some(entry.bidAmount),
                        drafted_by_team |-> team_name]]
         IN IF team_name # None /\ IsMyTeam(team_name)
            THEN AddToMyRoster(s1, entry, name_key)
            ELSE s1
    ELSE s

\* update_from_draft_event, lines 269-283: one entry of the draft log
MarkEntry(s, entry, teams) ==
    MarkDrafted(s, entry, EntryKey(entry.playerName),
                ResolveTeamName(entry.teamId, teams))

\* MarkEntries giving up at the first entry whose player is not in the pool
RECURSIVE MarkEntriesMut(_, _, _)
MarkEntriesMut(s, log, teams) ==
    IF log = << >> THEN s
    ELSE IF EntryKey(Head(log).playerName) \notin Keys THEN s
         ELSE MarkEntriesMut(MarkEntry(s, Head(log), teams), Tail(log), teams)

\* update_from_draft_event, lines 268-283: the loop over the draft log
RECURSIVE MarkEntries(_, _, _)
MarkEntries(s, log, teams) ==
    IF log = << >> THEN s
    ELSE MarkEntries(MarkEntry(s, Head(log), teams), Tail(log), teams)

\* OwnBudget taking the budget of every listed team, own or not
RECURSIVE OwnBudgetMut(_, _)
OwnBudgetMut(cur, teams) ==
    IF teams = << >> THEN cur
    ELSE LET team == Head(teams)
         IN OwnBudgetMut(IF team.remainingBudget # NoInt
                         THEN team.remainingBudget[1] ELSE cur,
                         Tail(teams))

\* update_from_draft_event, lines 286-289: own budget from the teams list
RECURSIVE OwnBudget(_, _)
OwnBudget(cur, teams) ==
    IF teams = << >> THEN cur
    ELSE LET team == Head(teams)
         IN OwnBudget(IF IsMyTeam(team.name) /\ team.remainingBudget # NoInt
                      THEN team.remainingBudget[1] ELSE cur,
                      Tail(teams))

\* DraftState.update_from_draft_event
UpdateFromDraftEvent(s, data) ==
    LET new_budgets == NewBudgets(data.teams, EmptyDict)
        s1 == IF DOMAIN new_budgets # {}
              THEN [s EXCEPT !.team_budgets = new_budgets] ELSE s
        s2 == MarkEntries(s1, data.draftLog, data.teams)
        s3 == [s2 EXCEPT !.my_team.budget = OwnBudget(@, data.teams)]
    IN RecomputeAggregates(s3)

\* DraftState.get_player: the key of the player found, or None
GetPlayer(name) ==
    IF NormalizeName(name) \in Keys THEN NormalizeName(name)
    ELSE IF Resolve(name) # None /\ Resolve(name) \in Keys THEN Resolve(name)
         ELSE None

(***************************************************************************)
(* EventStore (event_store.py).  disk is the log file, one element per     *)
(* line; buf holds what was written to the file object and not yet flushed.*)
(***************************************************************************)
\* the line json.dumps(record) + "\n" written by append
RecordLine(seq, event_type, payload) ==
    [kind |-> "record", seq |-> seq, type |-> event_type, payload |-> payload]

\* a line that is not JSON
GarbageLine == [kind |-> "garbage", seq |-> 0, type |-> "", payload |-> << >>]

\* a line that is JSON but not an object, such as 123 or null
ScalarLine == [kind |-> "scalar", seq |-> 0, type |-> "", payload |-> << >>]

\* an empty or whitespace-only line
BlankLine == [kind |-> "blank", seq |-> 0, type |-> "", payload |-> << >>]

\* EventStore.__init__
NewEventStore == [_seq |-> 0, _file |-> FALSE, _path |-> FALSE]

RECURSIVE CountNonBlank(_)
CountNonBlank(lines) ==
    IF lines = << >> THEN 0
    ELSE (IF Head(lines).kind # "blank" THEN 1 ELSE 0) + CountNonBlank(Tail(lines))

\* EventStore.open: the counter is advanced once per non-blank line
EsOpen(e, lines) ==
    [_seq |-> e._seq + CountNonBlank(lines), _file |-> TRUE, _path |-> TRUE]

\* EsWrite that counts an append made without an open file
EsWriteMut(e, event_type, payload) ==
    [es |-> [e EXCEPT !._seq = e._seq + 1],
     out |-> IF e._file THEN <<RecordLine(e._seq + 1, event_type, payload)>> ELSE << >>]

\* EventStore.append, up to the write: the new store and the line written
EsWrite(e, event_type, payload) ==
    IF ~e._file THEN [es |-> e, out |-> << >>]
    ELSE [es |-> [e EXCEPT !._seq = e._seq + 1],
          out |-> <<RecordLine(e._seq + 1, event_type, payload)>>]

\* EsFlush that loses what was written
EsFlushMut(lines, written) == lines

\* EventStore.append, line 58: flush() moves the buffered lines to the file
EsFlush(lines, written) == lines \o written

\* EventStore.close
EsClose(e) == [e EXCEPT !._file = FALSE]

\* EsClear that keeps the counter
EsClearMut(e) == [e EXCEPT !._file = e._path]

\* EventStore.clear: the store afterwards (the file is removed and recreated)
EsClear(e) == [e EXCEPT !._seq = 0, !._file = e._path]

\* json.loads on the lines of the file: "ok" for JSON, "error" otherwise
JsonLoads(line) == IF line.kind = "garbage" THEN "error" ELSE "ok"

\* the lines replay keeps: non-blank and parsed without JSONDecodeError
RECURSIVE Parsed(_)
Parsed(lines) ==
    IF lines = << >> THEN << >>
    ELSE IF Head(lines).kind # "blank" /\ JsonLoads(Head(lines)) = "ok"
         THEN <<Head(lines)>> \o Parsed(Tail(lines))
         ELSE Parsed(Tail(lines))

\* sorted(events, key=seq): a stable insertion sort
RECURSIVE InsertBySeq(_, _)
InsertBySeq(sorted, e) ==
    IF sorted = << >> THEN <<e>>
    ELSE IF Head(sorted).seq <= e.seq
         THEN <<Head(sorted)>> \o InsertBySeq(Tail(sorted), e)
         ELSE <<e>> \o sorted

RECURSIVE SortBySeq(_)
SortBySeq(events) ==
    IF events = << >> THEN << >>
    ELSE InsertBySeq(SortBySeq(SubSeq(events, 1, Len(events) - 1)),
                     events[Len(events)])

\* EventStore.replay: the events returned, or raised when the sort key
\* e.get("seq", 0) is applied to a parsed value that is not a dict
EsReplay(e, lines) ==
    IF ~e._path THEN [raised |-> FALSE, events |-> << >>]
    ELSE LET events == Parsed(lines)
         IN IF \E i \in 1..Len(events) : events[i].kind # "record"
            THEN [raised |-> TRUE, events |-> << >>]
            ELSE [raised |-> FALSE, events |-> SortBySeq(events)]

(***************************************************************************)
(* Manual override and startup replay (server.py).  A command text is kept *)
(* as its tokens: verb is the leading keyword ("" when there is none), name*)
(* the player name, num and team the trailing numbers (Optional[int]).     *)
(***************************************************************************)
\* f"Team #{team_id}" if team_id else "Unknown Team"
TeamLabel(team) ==
    IF team = NoInt THEN "Unknown Team"
    ELSE CASE team[1] = 1 -> "Team #1"
           [] team[1] = 2 -> "Team #2"
           [] OTHER -> "Team #3"

\* re.match(r"^undo\s+(.+)$")
MatchUndo(cmd) == cmd.verb = "undo" /\ cmd.name # ""

\* re.match(r"^budget\s+(\d+)$")
MatchBudget(cmd) ==
    cmd.verb = "budget" /\ cmd.name = "" /\ cmd.num # NoInt /\ cmd.team = NoInt

\* cmd.lower().strip() == "suggest"
MatchSuggest(cmd) ==
    cmd.verb = "suggest" /\ cmd.name = "" /\ cmd.num = NoInt /\ cmd.team = NoInt

\* re.match(r"^whatif\s+(.+?)\s+(\d+)\s*$")
MatchWhatif(cmd) ==
    cmd.verb = "whatif" /\ cmd.name # "" /\ cmd.num # NoInt /\ cmd.team = NoInt

\* re.match(r"^nom\s+(.+?)(?:\s+(\d+))?\s*$")
MatchNom(cmd) == cmd.verb = "nom" /\ cmd.name # ""

\* re.match(r"^(.+?)\s+(\d+)(?:\s+(\d+))?\s*$") on a text with no keyword
MatchSold(cmd) == cmd.verb = "" /\ cmd.name # "" /\ cmd.num # NoInt

\* manual_override, lines 362-372: the player leaves the pool of drafted
\* players, the own roster and the acquisition history
Undraft(s, key) ==
    LET display == Projection(key).player_name
        Keep(p) == StrLower(p.name) # StrLower(display)
    IN [s EXCEPT
          !.players[key] = FreshPlayer,
          !.my_team.roster =
              [sl \in RosterSlots |->
                 IF @[sl] # None /\ StrLower(@[sl]) = StrLower(display)
                 THEN None ELSE @[sl]],
          !.my_team.players_acquired = SelectSeq(@, Keep)]

\* manual_override, lines 390-397 and _replay_manual_command, lines 153-158
SetBudget(s, new_budget) ==
    RecomputeAggregates(
        [s EXCEPT
           !.my_team.budget = new_budget,
           !.team_budgets =
               [k \in DOMAIN @ |->
                  IF StrStrip(StrLower(k)) = StrStrip(StrLower(my_team_name))
                  THEN new_budget ELSE @[k]]])

\* MarkSold without the aggregate recompute
MarkSoldMut(s, key, price, team) ==
    [s EXCEPT !.players[key] =
        [is_drafted |-> TRUE, draft_price |-> Some(price),
         drafted_by_team |-> TeamLabel(team)]]

\* manual_override, lines 477-481
MarkSold(s, key, price, team) ==
    RecomputeAggregates(
        [s EXCEPT !.players[key] =
            [is_drafted |-> TRUE, draft_price |-> Some(price),
             drafted_by_team |-> TeamLabel(team)]])

\* ManualUndo that does not test whether the player is drafted
ManualUndoMut(s, player) ==
    IF player # None
    THEN [state |-> RecomputeAggregates(Undraft(s, player)),
          status |-> "ok", action |-> "undo", logged |-> TRUE, reason |-> ""]
    ELSE [state |-> s, status |-> "error", action |-> "undo", logged |-> FALSE,
          reason |-> "not found or not drafted"]

\* manual_override, lines 359-385: undo of the player get_player found
ManualUndo(s, player) ==
    IF player # None /\ s.players[player].is_drafted
    THEN [state |-> RecomputeAggregates(Undraft(s, player)),
          status |-> "ok", action |-> "undo", logged |-> TRUE, reason |-> ""]
    ELSE [state |-> s, status |-> "error", action |-> "undo", logged |-> FALSE,
          reason |-> "not found or not drafted"]

\* ManualSold that does not append the command to the event log
ManualSoldMut(s, cmd, player) ==
    IF player = None \/ s.players[player].is_drafted
    THEN [state |-> s, status |-> "error", action |-> "sold", logged |-> FALSE,
          reason |-> IF player = None THEN "not found in projections"
                     ELSE "already drafted"]
    ELSE [state |-> MarkSold(s, player, cmd.num[1], cmd.team),
          status |-> "ok", action |-> "sold", logged |-> FALSE, reason |-> ""]

\* manual_override, lines 464-495: sale of the player get_player found
ManualSold(s, cmd, player) ==
    IF player = None \/ s.players[player].is_drafted
    THEN [state |-> s, status |-> "error", action |-> "sold", logged |-> FALSE,
          reason |-> IF player = None THEN "not found in projections"
                     ELSE "already drafted"]
    ELSE [state |-> MarkSold(s, player, cmd.num[1], cmd.team),
          status |-> "ok", action |-> "sold", logged |-> TRUE, reason |-> ""]

\* manual_override, lines 422-439, with simulate_what_if working on a deep
\* copy of the store: the store itself is left as it is
ManualWhatif(s, player) ==
    IF player = None \/ s.players[player].is_drafted
    THEN [state |-> s, status |-> "error", action |-> "whatif", logged |-> FALSE,
          reason |-> IF player = None THEN "not found in projections"
                     ELSE "is already drafted"]
    ELSE [state |-> s, status |-> "ok", action |-> "whatif", logged |-> FALSE,
          reason |-> ""]

\* manual_override: the state afterwards, the response status and action,
\* and whether EventStore().append("manual", ...) was called
ManualOverride(s, cmd) ==
    IF MatchUndo(cmd)
    THEN ManualUndo(s, GetPlayer(cmd.name))
    ELSE IF MatchBudget(cmd)
    THEN [state |-> SetBudget(s, cmd.num[1]),
          status |-> "ok", action |-> "budget", logged |-> TRUE, reason |-> ""]
    ELSE IF MatchSuggest(cmd)
    THEN [state |-> s, status |-> "ok", action |-> "suggest", logged |-> FALSE,
          reason |-> ""]
    ELSE IF MatchWhatif(cmd)
    THEN ManualWhatif(s, GetPlayer(cmd.name))
    ELSE IF MatchNom(cmd)
    THEN [state |-> s, status |-> "ok", action |-> "nom", logged |-> FALSE,
          reason |-> ""]
    ELSE IF MatchSold(cmd)
    THEN ManualSold(s, cmd, GetPlayer(cmd.name))
    ELSE [state |-> s, status |-> "error", action |-> "unrecognized",
          logged |-> FALSE, reason |-> "Unrecognized command"]

\* _replay_manual_command, lines 134-148
ReplayUndo(s, player) ==
    IF player # None /\ s.players[player].is_drafted
    THEN RecomputeAggregates(Undraft(s, player))
    ELSE s

\* _replay_manual_command, lines 161-171
ReplaySold(s, cmd, player) ==
    IF player # None /\ ~s.players[player].is_drafted
    THEN MarkSold(s, player, cmd.num[1], cmd.team)
    ELSE s

\* ReplayManualCommand that does not know the undo command
ReplayManualCommandMut(cmd, s) ==
    IF MatchBudget(cmd)
    THEN SetBudget(s, cmd.num[1])
    ELSE IF MatchSold(cmd)
    THEN ReplaySold(s, cmd, GetPlayer(cmd.name))
    ELSE s

\* _replay_manual_command
ReplayManualCommand(cmd, s) ==
    IF MatchUndo(cmd)
    THEN ReplayUndo(s, GetPlayer(cmd.name))
    ELSE IF MatchBudget(cmd)
    THEN SetBudget(s, cmd.num[1])
    ELSE IF MatchSold(cmd)
    THEN ReplaySold(s, cmd, GetPlayer(cmd.name))
    ELSE s

\* lifespan, lines 88-101: one replayed event applied to the state
ReplayEvent(s, event) ==
    IF event.type = "draft_update"
    THEN UpdateFromDraftEvent(s, event.payload)
    ELSE IF event.type = "manual"
         THEN IF event.payload.command.verb # "nom"
              THEN ReplayManualCommand(event.payload.command, s)
              ELSE s
         ELSE s

\* lifespan, lines 86-101: the loop over the events; the state after an
\* event is a value (next) before the rest of the loop runs on it
RECURSIVE ReplayEvents(_, _)
ReplayEvents(s, events) ==
    IF events = << >> THEN s
    ELSE CHOOSE after \in {ReplayEvents(next, Tail(events)) :
                             next \in {ReplayEvent(s, Head(events))}} : TRUE

\* lifespan: projections loaded, the log opened and replayed
Lifespan(lines) ==
    LET store == EsOpen(NewEventStore, lines)
    IN CHOOSE started \in
           {[state |-> ReplayEvents(LoadedState, replayed.events),
             es |-> store, raised |-> replayed.raised] :
                replayed \in {EsReplay(store, lines)}} : TRUE

(***************************************************************************)
(* Valuation engine (engine.py).  Fair values are in tenths of a dollar,   *)
(* multipliers in hundredths.                                              *)
(***************************************************************************)
\* round(n / d) to the nearest integer, ties to even (n >= 0, d > 0)
RoundDiv(n, d) ==
    LET q == n \div d
        r == n % d
    IN IF 2 * r < d THEN q
       ELSE IF 2 * r > d THEN q + 1
       ELSE IF q % 2 = 0 THEN q ELSE q + 1

\* The engine computes in binary floating point.  Where the decimal product
\* of a fair value (tenths) and a scarcity multiplier lies exactly halfway
\* between two tenths, round(x, 1) goes to the side the double product falls
\* on.  For the fair values this sheet yields under a multiplier of 1.30 the
\* double lies above the midpoint for the first set and below it for the
\* second.
DoubleAboveTie ==
    {655, 895, 1215, 1235, 2585, 2595, 3245, 6875, 7595, 8955, 9375, 9655}

DoubleBelowTie == {1545, 5505, 13125}

\* round(fmv * scarcity * need * strat_mult, 1), in tenths
RoundProduct(fmv, scarcity, need, strat_mult) ==
    LET n == fmv * scarcity * need * strat_mult
    IN IF n % 10000 # 5000 THEN RoundDiv(n, 10000)
       ELSE IF scarcity = 130 /\ need = 1 /\ strat_mult = 100 /\ fmv \in DoubleAboveTie
       THEN n \div 10000 + 1
       ELSE IF scarcity = 130 /\ need = 1 /\ strat_mult = 100 /\ fmv \in DoubleBelowTie
       THEN n \div 10000
       ELSE RoundDiv(n, 10000)

\* the fair values v (tenths, up to 3000 dollars) for which 1.15 * v is a
\* whole number of dollars and the double product v * 1.15 falls below it
DoubleBelow115 ==
    {1000, 1800, 2000, 2200, 3400, 3600, 3800, 4000, 4200, 4400, 6600, 6800,
     7000, 7200, 7400, 7600, 7800, 8000, 8200, 8400, 8600, 8800}
    \cup {13000 + 200 * i : i \in 0..24}
    \cup {25800 + 200 * i : i \in 0..21}

\* Exceeds115 with a threshold of 1.30
Exceeds115Mut(current_bid, adjusted_fmv) == 1000 * current_bid > 130 * adjusted_fmv

\* current_bid > adjusted_fmv * 1.15, line 225: the bid in whole dollars, the
\* value in tenths
Exceeds115(current_bid, adjusted_fmv) ==
    \/ 1000 * current_bid > 115 * adjusted_fmv
    \/ /\ 1000 * current_bid = 115 * adjusted_fmv
       /\ adjusted_fmv \in DoubleBelow115

\* DraftState._compute_replacement_levels: the points of the Nth best
\* player of the position, N capped at the number of players there
ReplacementLevel(pos) ==
    LET at == {i \in 1..Len(Sheet) : Sheet[i].position = pos}
        rank == IF vorp_baselines(pos) < Cardinality(at)
                THEN vorp_baselines(pos) ELSE Cardinality(at)
        Better(i) == {j \in at : \/ Sheet[j].projected_points > Sheet[i].projected_points
                                 \/ /\ Sheet[j].projected_points = Sheet[i].projected_points
                                    /\ j < i}
    IN Sheet[CHOOSE i \in at : Cardinality(Better(i)) = rank - 1].projected_points

\* DraftState._compute_vorps, read back by calculate_vorp
Vorp(key) ==
    LET d == Projection(key).projected_points - ReplacementLevel(Projection(key).position)
    IN IF d > 0 THEN d ELSE 0

\* calculate_fmv: round(baseline_aav * inflation, 1), in tenths
calculate_fmv(key, s) ==
    RoundDiv(10 * Projection(key).baseline_aav * s.inflation_factor[1],
             s.inflation_factor[2])

\* ScarcityStep whose thresholds must be exceeded
ScarcityStepMut(drafted_count, group_size) ==
    IF group_size = 0 THEN 100
    ELSE IF 100 * drafted_count > 85 * group_size THEN 130
    ELSE IF 100 * drafted_count > 70 * group_size THEN 115
    ELSE IF 100 * drafted_count > 50 * group_size THEN 105
    ELSE 100

\* calculate_scarcity_multiplier, lines 72-85: the multiplier, in
\* hundredths, for a group of which drafted_count players are drafted
ScarcityStep(drafted_count, group_size) ==
    IF group_size = 0 THEN 100
    ELSE IF 100 * drafted_count >= 85 * group_size THEN 130
    ELSE IF 100 * drafted_count >= 70 * group_size THEN 115
    ELSE IF 100 * drafted_count >= 50 * group_size THEN 105
    ELSE 100

\* calculate_scarcity_multiplier, in hundredths
calculate_scarcity_multiplier(key, s) ==
    LET same_group == {k \in Keys : /\ Projection(k).position = Projection(key).position
                                    /\ Projection(k).tier = Projection(key).tier}
    IN ScarcityStep(Cardinality({k \in same_group : s.players[k].is_drafted}),
                    Cardinality(same_group))

\* the open slots of a position that are not BENCH
StarterSlots(key, s) ==
    SelectSeq(open_slots_for_position(s.my_team, Projection(key).position),
              LAMBDA sl : slot_base_type(sl) # "BENCH")

\* calculate_need_multiplier counting an open bench slot as a need
calculate_need_multiplierMut(key, s) ==
    IF open_slots_for_position(s.my_team, Projection(key).position) = << >> THEN 0
    ELSE 1

\* calculate_need_multiplier: 1 or 0
calculate_need_multiplier(key, s) ==
    IF open_slots_for_position(s.my_team, Projection(key).position) = << >> THEN 0
    ELSE IF StarterSlots(key, s) # << >> THEN 1 ELSE 0

\* calculate_strategy_multiplier for the "balanced" strategy, in hundredths
calculate_strategy_multiplier(key, s) == 100

\* EffectiveMax without the budget cap
EffectiveMaxMut(value, budget_max) == value \div 10

\* get_engine_advice, lines 187, 195, 236: min(int(value), budget_max),
\* value in tenths
EffectiveMax(value, budget_max) ==
    IF value \div 10 < budget_max THEN value \div 10 ELSE budget_max

\* CautiousCeiling at 1.15 times the value, the limit of the cautious range
CautiousCeilingMut(adjusted_fmv) == (adjusted_fmv * 115) \div 100

\* get_engine_advice, line 236: adjusted_fmv * 1.10, in tenths
CautiousCeiling(adjusted_fmv) == (adjusted_fmv * 110) \div 100

\* ValuationOnly advising to buy whatever the VORP
ValuationOnlyMut(vorp) == "BUY"

\* get_engine_advice, line 220: the action when there is no active bid
ValuationOnly(vorp) == IF vorp > 0 THEN "BUY" ELSE "PASS"

\* get_engine_advice; current_bid in whole dollars
get_engine_advice(player_name, current_bid, s) ==
    LET player == GetPlayer(player_name)
    IN IF player = None
       THEN [action |-> "PASS", max_bid |-> 0, fmv |-> 0, vorp |-> 0, known |-> FALSE]
       ELSE
         LET vorp == Vorp(player)
             fmv == calculate_fmv(player, s)
             scarcity == calculate_scarcity_multiplier(player, s)
             need == calculate_need_multiplier(player, s)
             strat_mult == calculate_strategy_multiplier(player, s)
             adjusted_fmv == RoundProduct(fmv, scarcity, need, strat_mult)
             market_fmv == RoundProduct(fmv, scarcity, 1, strat_mult)
             budget_max == max_bid(s.my_team)
             Out(action, effective_max) ==
                 [action |-> action, max_bid |-> effective_max,
                  fmv |-> market_fmv, vorp |-> vorp, known |-> TRUE]
         IN IF need = 0 /\ current_bid > 0 /\ vorp > 0 /\ 10 * current_bid < market_fmv
            THEN Out("PRICE_ENFORCE", EffectiveMax(market_fmv, budget_max))
            ELSE IF need = 0
            THEN Out("PASS", 0)
            ELSE IF current_bid <= 0
            THEN Out(ValuationOnly(vorp), EffectiveMax(adjusted_fmv, budget_max))
            ELSE IF Exceeds115(current_bid, adjusted_fmv)
            THEN Out("PASS", EffectiveMax(adjusted_fmv, budget_max))
            ELSE IF 10 * current_bid > adjusted_fmv /\ vorp > 0
            THEN Out("BUY", EffectiveMax(CautiousCeiling(adjusted_fmv), budget_max))
            ELSE IF vorp > 0
            THEN Out("BUY", EffectiveMax(adjusted_fmv, budget_max))
            ELSE Out("PASS", EffectiveMax(adjusted_fmv, budget_max))

(***************************************************************************)
(* Inputs                                                                  *)
(***************************************************************************)
\* TeamInfo lists an update may carry
TeamLists ==
    { << >>,
      << [teamId |-> 1, name |-> "My Team", remainingBudget |-> Some(150)],
         [teamId |-> 2, name |-> "Unknown", remainingBudget |-> Some(170)] >> }

\* DraftLogEntry values an update may carry
Entries ==
    { [playerName |-> "Travis Etienne Jr.", teamId |-> 1, bidAmount |-> 30],
      [playerName |-> "Bijan Robinson", teamId |-> 1, bidAmount |-> 50],
      [playerName |-> "Josh Allen", teamId |-> 2, bidAmount |-> 20],
      [playerName |-> "Nobody Atall", teamId |-> 2, bidAmount |-> 5] }

RECURSIVE SeqsUpTo(_, _)
SeqsUpTo(S, n) ==
    IF n = 0 THEN { << >> }
    ELSE LET shorter == SeqsUpTo(S, n - 1)
         IN shorter \cup {Append(q, x) : q \in shorter, x \in S}

\* DraftUpdate payloads
Updates == [teams : TeamLists, draftLog : SeqsUpTo(Entries, MaxLog)]

Cmd(verb, name, num, team) == [verb |-> verb, name |-> name, num |-> num, team |-> team]

UndoCommands == {Cmd("undo", n, NoInt, NoInt) :
                   n \in {"Travis Etienne", "Nobody Atall"}}

BudgetCommands == {Cmd("budget", "", Some(b), NoInt) : b \in {0}}

SoldCommands == {Cmd("", "Travis Etienne", Some(20), NoInt),
                 Cmd("", "Jalen Hurts", Some(20), Some(3)),
                 Cmd("", "Nobody Atall", Some(20), NoInt)}

NomCommands == {Cmd("nom", n, b, NoInt) :
                  n \in {"Bijan Robinson", "Josh Allen", "Nobody Atall"},
                  b \in {NoInt, Some(1)}}

JunkCommands == {Cmd("", "gibberish", NoInt, NoInt)}

SuggestCommands == {Cmd("suggest", "", NoInt, NoInt)}

WhatifCommands == {Cmd("whatif", "Josh Allen", Some(20), NoInt)}

Commands == UndoCommands \cup BudgetCommands \cup SoldCommands
            \cup NomCommands \cup JunkCommands
            \cup SuggestCommands \cup WhatifCommands

NoData == [teams |-> << >>, draftLog |-> << >>]

NoCmd == Cmd("", "", NoInt, NoInt)

\* the last completed operation: its kind, the response status and action,
\* and the player name of a manual command
NoOp == [op |-> "start", status |-> "", action |-> "", name |-> ""]

(***************************************************************************)
(* The server process: request handlers run to completion on the event     *)
(* loop, one at a time.                                                    *)
(***************************************************************************)
\* the log file still has room for one more record (bound of the model)
Room == es._file => Len(disk) < MaxEvents

\* POST /draft_update
DraftUpdateH(data) ==
    /\ pc = "idle"
    /\ Room
    /\ state' = UpdateFromDraftEvent(state, data)
    /\ \E w \in {EsWrite(es, "draft_update", data)} :
          es' = w.es /\ disk' = EsFlush(disk, w.out)
    /\ lastOp' = [op |-> "draft_update", status |-> "ok", action |-> "", name |-> ""]
    /\ UNCHANGED <<buf, pc, req, acked, ret>>

\* POST /manual
ManualH(cmd) ==
    /\ pc = "idle"
    /\ Room
    /\ \E r \in {ManualOverride(state, cmd)} :
          /\ state' = r.state
          /\ \E w \in {IF r.logged THEN EsWrite(es, "manual", [command |-> cmd])
                        ELSE [es |-> es, out |-> << >>]} :
                es' = w.es /\ disk' = EsFlush(disk, w.out)
          /\ lastOp' = [op |-> "manual", status |-> r.status,
                        action |-> r.action, name |-> cmd.name]
    /\ UNCHANGED <<buf, pc, req, acked, ret>>

\* the process is stopped and started again: lifespan rebuilds the state
Restart ==
    /\ pc = "idle"
    /\ es._file
    /\ \E started \in {Lifespan(disk)} :
          /\ ~started.raised
          /\ state' = started.state
          /\ es' = started.es
    /\ lastOp' = [NoOp EXCEPT !.op = "restart"]
    /\ UNCHANGED <<disk, buf, pc, req, acked, ret>>

\* DraftState.reset(), called on the store directly; lastOp notes whether
\* the store held draft progress when it was called
Reset ==
    /\ pc = "idle"
    /\ state' = ResetState(state)
    /\ lastOp' = [NoOp EXCEPT !.op = "reset",
                             !.status = IF state = LoadedState THEN "fresh" ELSE "used"]
    /\ UNCHANGED <<es, disk, buf, pc, req, acked, ret>>

NoRet == [raised |-> FALSE, events |-> << >>]

\* the server after lifespan on a log that does not exist yet
Init ==
    /\ \E started \in {Lifespan(<< >>)} :
          state = started.state /\ es = started.es
    /\ disk = << >>
    /\ buf = << >>
    /\ pc = "idle"
    /\ req = NoOp
    /\ acked = << >>
    /\ lastOp = NoOp
    /\ ret = NoRet

Next ==
    \/ \E data \in Updates : DraftUpdateH(data)
    \/ \E cmd \in Commands : ManualH(cmd)
    \/ Restart

Spec == Init /\ [][Next]_vars

\* the state store and the handlers used without an opened event log
InitStore ==
    /\ state = LoadedState
    /\ es = NewEventStore
    /\ disk = << >>
    /\ buf = << >>
    /\ pc = "idle"
    /\ req = NoOp
    /\ acked = << >>
    /\ lastOp = NoOp
    /\ ret = NoRet

NextStore ==
    \/ \E data \in Updates : DraftUpdateH(data)
    \/ \E cmd \in Commands : ManualH(cmd)
    \/ Reset

SpecStore == InitStore /\ [][NextStore]_vars

(***************************************************************************)
(* Properties                                                              *)
(***************************************************************************)
RECURSIVE SumPrices(_)
SumPrices(acquired) ==
    IF acquired = << >> THEN 0 ELSE Head(acquired).price + SumPrices(Tail(acquired))

\* the names and bids a valuation may be asked for
QueryNames == {"Bijan Robinson", "Travis Etienne", "Josh Allen", "Nobody Atall"}

QueryBids == {0, 1, 60, 900}

\* C1: from every reachable state, applying an update a second time right
\* after applying it leaves players, team budgets, own budget, roster,
\* acquisition history and aggregates as the first application left them.
C1_UpdateIdempotent ==
    \A data \in Updates :
        LET once == UpdateFromDraftEvent(state, data)
        IN UpdateFromDraftEvent(once, data) = once

\* C1 witness: an update has placed an own-team purchase on the roster
C1_Witness ==
    /\ lastOp.op = "draft_update"
    /\ state.my_team.roster["RB"] # None
    /\ Len(state.my_team.players_acquired) > 0
    /\ state.my_team.budget = 150

\* C2: replaying the log at startup rebuilds exactly the state the live
\* handlers produced from the same events.
C2_ReplayEquivalence ==
    /\ ~Lifespan(disk).raised
    /\ Lifespan(disk).state = state

\* C2 witness: the log holds an update and a manual command, and they
\* changed the state
C2_Witness ==
    /\ Len(disk) >= 2
    /\ \E i, j \in 1..Len(disk) : disk[i].type = "draft_update" /\ disk[j].type = "manual"
    /\ \E k \in Keys : state.players[k].is_drafted
    /\ lastOp.op # "restart"

ReportedBudget(cur, teams) ==
    LET own == {i \in 1..Len(teams) :
                  IsMyTeam(teams[i].name) /\ teams[i].remainingBudget # NoInt}
    IN IF own = {} THEN cur
       ELSE teams[CHOOSE i \in own : \A j \in own : j <= i].remainingBudget[1]

C4_InflationIsCashOverValue ==
    LET value == SumAAVFrom(state.players, 1)
        cash == IF DOMAIN state.team_budgets # {}
                THEN SumValues(state.team_budgets, DOMAIN state.team_budgets)
                ELSE league_size * budget
    IN /\ state.total_remaining_aav = value
       /\ state.total_remaining_cash = cash
       /\ state.inflation_factor[1] * (IF value > 0 THEN value ELSE 1)
            = state.inflation_factor[2] * (IF value > 0 THEN cash ELSE 1)

\* C4 witness: every player is drafted and the factor is 1
C4_Witness ==
    /\ \A k \in Keys : state.players[k].is_drafted
    /\ state.inflation_factor = <<1, 1>>
    /\ lastOp.action = "sold"

\* C8 as stated: the roster keeps its slots and no player is in two of them
C8_OnePlayerOneSlot ==
    /\ DOMAIN state.my_team.roster = RosterSlots
    /\ \A a, b \in RosterSlots :
          (a # b /\ state.my_team.roster[a] # None /\ state.my_team.roster[b] # None)
              => GetPlayer(state.my_team.roster[a]) # GetPlayer(state.my_team.roster[b])

\* C9 as stated: after a successful undo the player is undrafted, priceless,
\* teamless, in no roster slot, and the aggregates are current
C9_UndoClearsPlayer ==
    (lastOp.action = "undo" /\ lastOp.status = "ok") =>
        LET p == GetPlayer(lastOp.name)
        IN /\ state.players[p] = FreshPlayer
           /\ \A sl \in RosterSlots :
                 state.my_team.roster[sl] # None
                     => GetPlayer(state.my_team.roster[sl]) # p
           /\ C4_InflationIsCashOverValue

LineKinds == {"record", "garbage", "scalar", "blank"}

\* the payload of the records of the log specification
LogPayload == [command |-> NoCmd]

\* the file whose lines have the given kinds, its records numbered from 1
RECURSIVE FileOf(_, _)
FileOf(kinds, n) ==
    IF kinds = << >> THEN << >>
    ELSE IF Head(kinds) = "record"
         THEN <<RecordLine(n + 1, "manual", LogPayload)>> \o FileOf(Tail(kinds), n + 1)
         ELSE <<CASE Head(kinds) = "garbage" -> GarbageLine
                  [] Head(kinds) = "scalar" -> ScalarLine
                  [] OTHER -> BlankLine>> \o FileOf(Tail(kinds), n)

InitialLogs == {FileOf(kinds, 0) : kinds \in SeqsUpTo(LineKinds, MaxLines)}

LogOp(op, status) == [op |-> op, status |-> status, action |-> "", name |-> ""]

\* store.open(path)
LogOpen ==
    /\ es._seq + CountNonBlank(disk) <= MaxSeq
    /\ es' = EsOpen(es, disk)
    /\ lastOp' = LogOp("open", "")
    /\ UNCHANGED <<state, disk, buf, pc, req, acked, ret>>

\* store.append("manual", payload)
LogAppend ==
    /\ Len(disk) < MaxLines + MaxEvents
    /\ es._seq < MaxSeq
    /\ \E w \in {EsWrite(es, "manual", LogPayload)} :
          /\ es' = w.es
          /\ disk' = EsFlush(disk, w.out)
          /\ lastOp' = LogOp("append", IF w.out = << >> THEN "noop" ELSE "written")
    /\ UNCHANGED <<state, buf, pc, req, acked, ret>>

\* store.replay()
LogReplay ==
    /\ ret' = EsReplay(es, disk)
    /\ lastOp' = LogOp("replay", "")
    /\ UNCHANGED <<state, es, disk, buf, pc, req, acked>>

\* store.clear()
LogClear ==
    /\ es' = EsClear(es)
    /\ disk' = IF es._path THEN << >> ELSE disk
    /\ lastOp' = LogOp("clear", "")
    /\ UNCHANGED <<state, buf, pc, req, acked, ret>>

\* store.close()
LogClose ==
    /\ es' = EsClose(es)
    /\ lastOp' = LogOp("close", "")
    /\ UNCHANGED <<state, disk, buf, pc, req, acked, ret>>

\* the process ends and another one starts with a store of its own
NewProcess ==
    /\ es' = NewEventStore
    /\ ret' = NoRet
    /\ lastOp' = LogOp("exec", "")
    /\ UNCHANGED <<state, disk, buf, pc, req, acked>>

InitLog ==
    /\ state = LoadedState
    /\ es = NewEventStore
    /\ disk \in InitialLogs
    /\ buf = << >>
    /\ pc = "idle"
    /\ req = NoOp
    /\ acked = << >>
    /\ lastOp = NoOp
    /\ ret = NoRet

NextLog ==
    \/ LogOpen
    \/ LogAppend
    \/ LogReplay
    \/ LogClear
    \/ LogClose
    \/ NewProcess

SpecLog == InitLog /\ [][NextLog]_vars

\* the valid records of a file, in file order
ValidRecords(lines) == SelectSeq(lines, LAMBDA l : l.kind = "record")

\* C5 as stated: replay returns exactly the valid records of the file, in
\* ascending sequence order, and does not raise, whatever lines the file has
C5_ReplayReturnsValidRecords ==
    (lastOp.op = "replay" /\ es._path) =>
        /\ ~ret.raised
        /\ ret.events = SortBySeq(ValidRecords(disk))

\* C6 as stated: the record an append writes is numbered 1 when it is the
\* first record of the log and one more than the record before it otherwise
C6_AppendContinuesNumbering ==
    (lastOp.op = "append" /\ lastOp.status = "written") =>
        LET recs == ValidRecords(disk)
            n == Len(recs)
        IN recs[n].seq = IF n = 1 THEN 1 ELSE recs[n - 1].seq + 1

(***************************************************************************)
(* Crashes.  A handler mutates the store, then append() writes the record  *)
(* to the file object (buf) and flushes it to the file (disk), then the    *)
(* handler returns its response.  The process may die at any point: what   *)
(* is in buf is lost, and the next process rebuilds the state in lifespan. *)
(* No await separates a handler's mutation from its append, so requests do *)
(* not interleave there.                                                   *)
(***************************************************************************)
\* draft_update, lines 196-216: the update is applied to the store
CrashBeginUpdate(data) ==
    /\ pc = "idle"
    /\ Room
    /\ state' = UpdateFromDraftEvent(state, data)
    /\ req' = [type |-> "draft_update", payload |-> data]
    /\ pc' = "mutated"
    /\ UNCHANGED <<es, disk, buf, acked, lastOp, ret>>

\* manual_override up to its append; a command that is not logged returns
CrashBeginManual(cmd) ==
    /\ pc = "idle"
    /\ Room
    /\ \E r \in {ManualOverride(state, cmd)} :
          /\ state' = r.state
          /\ IF r.logged
             THEN /\ req' = [type |-> "manual", payload |-> [command |-> cmd]]
                  /\ pc' = "mutated"
             ELSE UNCHANGED <<req, pc>>
    /\ UNCHANGED <<es, disk, buf, acked, lastOp, ret>>

\* EventStore.append, lines 50-57: the record is written to the file object
CrashWrite ==
    /\ pc = "mutated"
    /\ \E w \in {EsWrite(es, req.type, req.payload)} :
          es' = w.es /\ buf' = buf \o w.out
    /\ pc' = "written"
    /\ UNCHANGED <<state, disk, req, acked, lastOp, ret>>

\* EventStore.append, line 58
CrashFlush ==
    /\ pc = "written"
    /\ disk' = EsFlush(disk, buf)
    /\ buf' = << >>
    /\ pc' = "flushed"
    /\ UNCHANGED <<state, es, req, acked, lastOp, ret>>

\* the handler returns its response: the mutation is acknowledged
CrashReturn ==
    /\ pc = "flushed"
    /\ acked' = Append(acked, RecordLine(es._seq, req.type, req.payload))
    /\ req' = NoOp
    /\ pc' = "idle"
    /\ lastOp' = LogOp("ack", "")
    /\ UNCHANGED <<state, es, disk, buf, ret>>

\* the process dies and is started again
Crash ==
    /\ \E started \in {Lifespan(disk)} :
          /\ ~started.raised
          /\ state' = started.state
          /\ es' = started.es
    /\ buf' = << >>
    /\ req' = NoOp
    /\ pc' = "idle"
    /\ lastOp' = LogOp("crash", "")
    /\ UNCHANGED <<disk, acked, ret>>

NextCrash ==
    \/ \E data \in Updates : CrashBeginUpdate(data)
    \/ \E cmd \in Commands : CrashBeginManual(cmd)
    \/ CrashWrite
    \/ CrashFlush
    \/ CrashReturn
    \/ Crash

SpecCrash == Init /\ [][NextCrash]_vars

\* C7: every acknowledged mutation is a record of the log file, and the
\* state a restart rebuilds from the file is the state the acknowledged (and
\* completed) mutations produced.
C7_AcknowledgedIsDurable ==
    /\ \A i \in 1..Len(acked) : \E j \in 1..Len(disk) : disk[j] = acked[i]
    /\ ~Lifespan(disk).raised
    /\ pc = "idle" => Lifespan(disk).state = state

\* C7 witness: the process died and restarted after two mutations were
\* acknowledged, and their effect is there
C7_Witness ==
    /\ lastOp.op = "crash"
    /\ Len(acked) = 2
    /\ acked[1].type # acked[2].type
    /\ \E k \in Keys : state.players[k].is_drafted

(***************************************************************************)
(* Valuation with no open starter slot                                     *)
(***************************************************************************)
\* the market value of a player in tenths: inflated baseline value times
\* the scarcity premium, with no roster-need discount
MarketValue(key, s) ==
    RoundProduct(calculate_fmv(key, s), calculate_scarcity_multiplier(key, s), 1, 100)

\* the dedicated slot and every flexible non-bench slot accepting the
\* position of the player are occupied
NoStarterSlot(key, s) ==
    \A sl \in RosterSlots :
        (/\ slot_base_type(sl) # "BENCH"
         /\ Projection(key).position \in SLOT_ELIGIBILITY(slot_base_type(sl)))
            => s.my_team.roster[sl] # None

C12_OpenCountsValidRecords ==
    [][(es = NewEventStore /\ LogOpen) => es'._seq = Len(Parsed(disk))]_vars

(***************************************************************************)
(* Manual commands and the event log                                       *)
(***************************************************************************)
\* C13: a manual command that is accepted as a sale, a budget or an undo
\* appends exactly one record of type "manual" carrying the command to the
\* log file; nom, whatif, suggest and every rejected command append nothing.
C13_MutatingCommandsLogged ==
    [][\A cmd \in Commands :
         \/ lastOp'.op # "manual"
         \/ IF lastOp'.status = "ok" /\ lastOp'.action \in {"sold", "budget", "undo"}
            THEN /\ Len(disk') = Len(disk) + 1
                 /\ SubSeq(disk', 1, Len(disk)) = disk
                 /\ disk'[Len(disk')].kind = "record"
                 /\ disk'[Len(disk')].type = "manual"
                 /\ disk'[Len(disk')].type # "draft_update"
                 /\ disk'[Len(disk')].payload = [command |-> cmd]
            ELSE disk' = disk /\ es' = es
         \/ ~ManualH(cmd)]_vars

\* C13 witness: a sale was entered by hand after an update, and the log
\* holds the update's record followed by the command's
C13_Witness ==
    /\ lastOp.op = "manual"
    /\ lastOp.status = "ok"
    /\ lastOp.action = "sold"
    /\ Len(disk) = 2
    /\ disk[1].type = "draft_update"
    /\ disk[2].type = "manual"
    /\ disk[2].payload.command.name = lastOp.name

\* a command that fails: undo of an unknown or not-drafted player, sale of an
\* unknown or already-drafted player, unrecognized text
FailingCommand(cmd, s) ==
    \/ cmd \in UndoCommands
         /\ (GetPlayer(cmd.name) = None \/ ~s.players[GetPlayer(cmd.name)].is_drafted)
    \/ cmd \in SoldCommands
         /\ (GetPlayer(cmd.name) = None \/ s.players[GetPlayer(cmd.name)].is_drafted)
    \/ cmd \in JunkCommands

\* C14: a manual command that fails returns an error result carrying a
\* reason and leaves players, budgets, roster, aggregates and the log file
\* unchanged.
C14_FailedCommandChangesNothing ==
    [][\A cmd \in Commands :
         \/ ~FailingCommand(cmd, state)
         \/ /\ lastOp'.status = "error"
            /\ ManualOverride(state, cmd).reason # ""
            /\ state' = state
            /\ disk' = disk
            /\ es' = es
         \/ ~ManualH(cmd)]_vars

\* C14 witness: with a purchase on the own roster and a record in the log,
\* the sale of a player already drafted was rejected
C14_Witness ==
    /\ lastOp.op = "manual"
    /\ lastOp.status = "error"
    /\ lastOp.action = "sold"
    /\ GetPlayer(lastOp.name) # None
    /\ state.players[GetPlayer(lastOp.name)].is_drafted
    /\ Len(state.my_team.players_acquired) > 0
    /\ Len(disk) > 0

(***************************************************************************)
(* Own purchases and roster slots                                          *)
(***************************************************************************)
\* the open slots a purchase at a position may go to by priority: the open
\* dedicated slots, else the open flexible non-bench slots accepting the
\* position, else the open bench slots
PrioritySlots(roster, pos) ==
    LET Open(sl) == roster[sl] = None /\ pos \in SLOT_ELIGIBILITY(slot_base_type(sl))
        dedicated == {sl \in RosterSlots : Open(sl) /\ slot_base_type(sl) = pos}
        flex == {sl \in RosterSlots : Open(sl) /\ slot_base_type(sl) \notin {pos, "BENCH"}}
        bench == {sl \in RosterSlots : Open(sl) /\ slot_base_type(sl) = "BENCH"}
    IN IF dedicated # {} THEN dedicated ELSE IF flex # {} THEN flex ELSE bench

\* C15: an update recording the sale of an undrafted pool player to the own
\* team, with a slot open for the position, changes exactly one roster slot:
\* an open one of the highest priority available (dedicated, then flexible
\* non-bench, then bench), which now holds the player.
C15_OwnPurchaseSlotPriority ==
    \A e \in Entries, teams \in TeamLists :
        LET key == GetPlayer(e.playerName)
            after == UpdateFromDraftEvent(state, [teams |-> teams, draftLog |-> <<e>>])
        IN (/\ key # None
            /\ ~state.players[key].is_drafted
            /\ IsMyTeam(ResolveTeamName(e.teamId, teams))
            /\ PrioritySlots(state.my_team.roster, Projection(key).position) # {}) =>
              \E sl \in PrioritySlots(state.my_team.roster, Projection(key).position) :
                  after.my_team.roster =
                      [state.my_team.roster EXCEPT ![sl] = e.playerName]

\* C15 witness: updates have placed own purchases in the dedicated slot, the
\* flexible slot and, last, the bench
C15_Witness ==
    /\ lastOp.op = "draft_update"
    /\ state.my_team.roster["RB"] # None
    /\ state.my_team.roster["FLEX"] # None
    /\ state.my_team.roster["BENCH"] # None
    /\ state.my_team.roster["QB"] = None

(***************************************************************************)
(* Value over next available (engine.py, state.py).  The store is reduced  *)
(* to the players of one position: state.pool lists them in the order of   *)
(* the projection sheet (the insertion order of DraftState.players), each  *)
(* named by its row number, with distinct projected points.                *)
(***************************************************************************)
\* projected points a sheet may give
GroupPoints == {100 + 20 * i : i \in 1..MaxGroup}

\* settings.vorp_baselines of the positions: 1 (K, DEF) and 11 (QB, TE)
GroupBaselines == {1, 11}

\* list.sort(reverse=True) of a list of numbers
RECURSIVE InsertDesc(_, _)
InsertDesc(sorted, x) ==
    IF sorted = << >> THEN <<x>>
    ELSE IF Head(sorted) >= x THEN <<Head(sorted)>> \o InsertDesc(Tail(sorted), x)
         ELSE <<x>> \o sorted

RECURSIVE SortDesc(_)
SortDesc(points_list) ==
    IF points_list = << >> THEN << >>
    ELSE InsertDesc(SortDesc(Tail(points_list)), Head(points_list))

\* DraftState._compute_replacement_levels for one position
GroupReplacementLevel(points_list, baseline_rank) ==
    LET idx == IF baseline_rank - 1 < Len(points_list) - 1
               THEN baseline_rank - 1 ELSE Len(points_list) - 1
    IN SortDesc(points_list)[idx + 1]

\* LoadGroup whose VORP is the bare difference to the replacement level
LoadGroupMut(points_list, baseline_rank) ==
    [pool |->
       [i \in 1..Len(points_list) |->
          [player_name |-> i,
           projected_points |-> points_list[i],
           vorp |-> points_list[i] - GroupReplacementLevel(points_list, baseline_rank),
           is_drafted |-> FALSE]]]

\* DraftState._load_rows, _compute_replacement_levels and _compute_vorps for
\* the rows of one position
LoadGroup(points_list, baseline_rank) ==
    [pool |->
       [i \in 1..Len(points_list) |->
          [player_name |-> i,
           projected_points |-> points_list[i],
           vorp |-> IF points_list[i] > GroupReplacementLevel(points_list, baseline_rank)
                    THEN points_list[i] - GroupReplacementLevel(points_list, baseline_rank)
                    ELSE 0,
           is_drafted |-> FALSE]]]

\* sorted(results, key=vorp, reverse=True): stable, so players of equal VORP
\* keep the order they had
RECURSIVE InsertByVorp(_, _)
InsertByVorp(sorted, ps) ==
    IF sorted = << >> THEN <<ps>>
    ELSE IF Head(sorted).vorp >= ps.vorp
         THEN <<Head(sorted)>> \o InsertByVorp(Tail(sorted), ps)
         ELSE <<ps>> \o sorted

RECURSIVE SortByVorp(_)
SortByVorp(results) ==
    IF results = << >> THEN << >>
    ELSE InsertByVorp(SortByVorp(SubSeq(results, 1, Len(results) - 1)),
                      results[Len(results)])

\* DraftState.get_remaining_players(position)
get_remaining_players(s) ==
    SortByVorp(SelectSeq(s.pool, LAMBDA ps : ~ps.is_drafted))

\* calculate_vona, lines 26-33: the player following the given one in the list
RECURSIVE NextAfter(_, _, _)
NextAfter(remaining, name, found) ==
    IF remaining = << >> THEN << >>
    ELSE IF Head(remaining).player_name = name
         THEN NextAfter(Tail(remaining), name, TRUE)
         ELSE IF found THEN <<Head(remaining)>>
              ELSE NextAfter(Tail(remaining), name, found)

\* calculate_vona
calculate_vona(player, s) ==
    LET after == NextAfter(get_remaining_players(s), player.player_name, FALSE)
    IN IF after # << >>
       THEN [vona |-> IF player.projected_points > after[1].projected_points
                      THEN player.projected_points - after[1].projected_points
                      ELSE 0,
             next |-> Some(after[1].player_name)]
       ELSE [vona |-> IF player.vorp > 0 THEN player.vorp ELSE 0, next |-> NoInt]

\* the sheets of one position: up to MaxGroup rows of distinct points
GroupSheets ==
    {pts \in SeqsUpTo(GroupPoints, MaxGroup) :
        /\ pts # << >>
        /\ \A i, j \in 1..Len(pts) : i # j => pts[i] # pts[j]}

\* a player of the group is sold
VonaDraft(i) ==
    /\ i \in 1..Len(state.pool)
    /\ ~state.pool[i].is_drafted
    /\ state' = [state EXCEPT !.pool[i].is_drafted = TRUE]
    /\ lastOp' = [op |-> "sold", status |-> "", action |-> "", name |-> i]
    /\ UNCHANGED <<es, disk, buf, pc, req, acked, ret>>

\* get_engine_advice, line 161: the VONA of an undrafted player is computed
VonaQuery(i) ==
    /\ i \in 1..Len(state.pool)
    /\ ~state.pool[i].is_drafted
    /\ ret' = calculate_vona(state.pool[i], state)
    /\ lastOp' = [op |-> "vona", status |-> "", action |-> "", name |-> i]
    /\ UNCHANGED <<state, es, disk, buf, pc, req, acked>>

InitVona ==
    /\ state \in {LoadGroup(pts, rank) : pts \in GroupSheets, rank \in GroupBaselines}
    /\ es = NewEventStore
    /\ disk = << >>
    /\ buf = << >>
    /\ pc = "idle"
    /\ req = NoOp
    /\ acked = << >>
    /\ lastOp = NoOp
    /\ ret = NoRet

NextVona ==
    \/ \E i \in 1..MaxGroup : VonaDraft(i)
    \/ \E i \in 1..MaxGroup : VonaQuery(i)

SpecVona == InitVona /\ [][NextVona]_vars

\* the undrafted players of the group projected below the given one
LowerRemaining(i, s) ==
    {j \in 1..Len(s.pool) :
        /\ ~s.pool[j].is_drafted
        /\ s.pool[j].projected_points < s.pool[i].projected_points}

\* C16 as stated: the VONA computed for an undrafted player is its projected
\* points minus those of the next-best undrafted player of the position, and
\* for the lowest remaining player it is the player's own VORP, with no next
\* player named
C16_VonaIsGapToNextBest ==
    lastOp.op = "vona" =>
        LET i == lastOp.name
            lower == LowerRemaining(i, state)
        IN IF lower = {}
           THEN ret.vona = state.pool[i].vorp /\ ret.next = NoInt
           ELSE \E j \in lower :
                  /\ \A k \in lower :
                        state.pool[k].projected_points <= state.pool[j].projected_points
                  /\ ret.vona = state.pool[i].projected_points
                                  - state.pool[j].projected_points
                  /\ ret.next = Some(j)

(***************************************************************************)
(* Updates carrying a sale of an unknown player                            *)
(***************************************************************************)
\* the name is no key of the pool, equals no normalised pool name and is
\* close to none
Unresolvable(name) ==
    /\ NormalizeName(name) \notin Keys
    /\ \A i \in 1..Len(Sheet) :
          /\ normalize_name(name) # Corpus[i][1]
          /\ token_sort_ratio(normalize_name(name), Corpus[i][1]) < FUZZY_THRESHOLD

\* the update without the entries whose player cannot be resolved
WithoutUnresolvable(data) ==
    [data EXCEPT !.draftLog = SelectSeq(@, LAMBDA e : ~Unresolvable(e.playerName))]

\* C17: an entry of an update whose player name resolves to no pool player
\* changes no player, and the update leaves the store as the same update
\* without that entry would.
C17_UnresolvableEntrySkipped ==
    \A data \in Updates :
        /\ UpdateFromDraftEvent(state, data)
             = UpdateFromDraftEvent(state, WithoutUnresolvable(data))
        /\ (\A i \in 1..Len(data.draftLog) : Unresolvable(data.draftLog[i].playerName))
              => UpdateFromDraftEvent(state, data).players = state.players

\* C17 witness: the last update listed the sale of an unknown player before
\* the sale of a pool player, and the pool player is drafted at its price
C17_Witness ==
    /\ lastOp.op = "draft_update"
    /\ Len(disk) > 0
    /\ disk[Len(disk)].type = "draft_update"
    /\ Len(disk[Len(disk)].payload.draftLog) = 2
    /\ disk[Len(disk)].payload.draftLog[1].playerName = "Nobody Atall"
    /\ disk[Len(disk)].payload.draftLog[2].playerName = "Josh Allen"
    /\ state.players["josh allen"].is_drafted
    /\ state.players["josh allen"].draft_price = Some(20)
    /\ Cardinality({k \in Keys : state.players[k].is_drafted}) = 1

(***************************************************************************)
(* Reset                                                                   *)
(***************************************************************************)
RECURSIVE SumSheetAAV(_)
SumSheetAAV(i) ==
    IF i > Len(Sheet) THEN 0 ELSE Sheet[i].baseline_aav + SumSheetAAV(i + 1)

\* C18: after reset() every player is undrafted with no price and no team,
\* the team budgets are empty, the own budget is the total budget, every
\* roster slot is empty, the acquisition history is empty and the
\* aggregates are those of the untouched pool (the projections, replacement
\* levels and VORP are fixed by the sheet and are not written by reset).
C18_ResetRestoresBaseline ==
    lastOp.op = "reset" =>
        /\ \A k \in Keys :
              /\ ~state.players[k].is_drafted
              /\ state.players[k].draft_price = NoInt
              /\ state.players[k].drafted_by_team = None
        /\ DOMAIN state.team_budgets = {}
        /\ state.my_team.budget = state.my_team.total_budget
        /\ state.my_team.total_budget = budget
        /\ \A sl \in RosterSlots : state.my_team.roster[sl] = None
        /\ DOMAIN state.my_team.roster = RosterSlots
        /\ state.my_team.players_acquired = << >>
        /\ state.total_remaining_aav = SumSheetAAV(1)
        /\ state.total_remaining_cash = league_size * budget
        /\ state.inflation_factor = Frac(league_size * budget, SumSheetAAV(1))
        /\ state = LoadedState

\* C18 witness: reset() was called on a store that held draft progress
C18_Witness ==
    /\ lastOp.op = "reset"
    /\ lastOp.status = "used"
    /\ state = LoadedState

(***************************************************************************)
(* AI advisor (ai_advisor.py).  state holds the module's globals, the      *)
(* clock and the configuration; req holds the get_ai_advice coroutines in  *)
(* progress.  A coroutine runs without interruption from its call to the   *)
(* await of the external call, and from the end of that call to its        *)
(* return; the event loop interleaves coroutines at the await only.        *)
(***************************************************************************)
CACHE_TTL_SECONDS == 120

_RATE_LIMIT_BACKOFF_SECONDS == 60

\* seconds between two readings of the clock
ClockStep == 60

\* player names advice is asked for: two spellings of one name and another
AdviceNames == {"Josh Allen", "josh allen", "Bijan Robinson"}

\* cache_key = player_name.lower().strip()
CacheKey(player_name) == StrStrip(StrLower(player_name))

AdviceKeys == {CacheKey(n) : n \in AdviceNames}

\* EngineAdvice values a caller passes
EngineAdvices == {[action |-> "BUY", max_bid |-> 40],
                  [action |-> "PASS", max_bid |-> 0]}

\* the dict a usable reply of the provider parses to
AiResult == [action |-> "PRICE_ENFORCE", max_bid |-> 7]

\* how the awaited _call_ai ends: a usable dict; a falsy result; a body that
\* does not parse or whose fields do not convert; the wait_for timeout; a
\* transport error; an HTTP error status other than 429; a 429 whose message
\* speaks of the per-minute rate, of the quota, or is not a string
Replies == {"usable", "empty", "malformed", "timeout", "transport",
            "status_error", "rate_limited", "quota", "bad_error_body"}

\* _engine_to_full
EngineToFull(engine, source) ==
    [action |-> engine.action, max_bid |-> engine.max_bid, source |-> source]

\* get_ai_advice, lines 249-262: the FullAdvice built from the reply
AiToFull(result) ==
    [action |-> result.action, max_bid |-> result.max_bid, source |-> "ai"]

NoAdvice == [action |-> "", max_bid |-> 0, source |-> ""]

\* a coroutine slot not in use
NoTask == [pc |-> "idle", player_name |-> "", engine |-> NoAdvice]

\* no call of get_ai_advice has returned yet
NoReturn == [player_name |-> "", engine |-> NoAdvice, outcome |-> "",
             raised |-> FALSE, result |-> NoAdvice]

\* the module after import
NewAdvisor(has_key) ==
    [_advice_cache |-> [k \in AdviceKeys |-> << >>],
     _inflight |-> {},
     _rate_limit_until |-> 0,
     now |-> 0,
     has_ai_key |-> has_key]

\* get_ai_advice, lines 217-220: the cached advice, if it is young enough
CacheHit(m, key) ==
    /\ m._advice_cache[key] # << >>
    /\ m.now - m._advice_cache[key][1].ts < CACHE_TTL_SECONDS

\* _advice_cache[cache_key] = (advice, time.time())
CachePut(m, key, advice) ==
    [m EXCEPT !._advice_cache[key] = <<[advice |-> advice, ts |-> m.now]>>]

\* InflightDiscard that leaves the mark in place
InflightDiscardMut(m, key) == m

\* get_ai_advice, lines 297-298: finally: _inflight.discard(cache_key)
InflightDiscard(m, key) == [m EXCEPT !._inflight = @ \ {key}]

\* get_ai_advice, lines 215-239: up to the await; awaiting tells whether the
\* external call was started, else result is what the coroutine returns
AdviceBegin(m, player_name, engine) ==
    IF CacheHit(m, CacheKey(player_name))
    THEN [module |-> m, awaiting |-> FALSE, outcome |-> "cached",
          result |-> m._advice_cache[CacheKey(player_name)][1].advice]
    ELSE IF ~m.has_ai_key
    THEN [module |-> m, awaiting |-> FALSE, outcome |-> "no_key",
          result |-> EngineToFull(engine, "engine")]
    ELSE IF m.now < m._rate_limit_until
    THEN [module |-> m, awaiting |-> FALSE, outcome |-> "cooldown",
          result |-> EngineToFull(engine, "engine")]
    ELSE IF CacheKey(player_name) \in m._inflight
    THEN [module |-> m, awaiting |-> FALSE, outcome |-> "duplicate",
          result |-> EngineToFull(engine, "engine")]
    ELSE [module |-> [m EXCEPT !._inflight = @ \cup {CacheKey(player_name)}],
          awaiting |-> TRUE, outcome |-> "", result |-> NoAdvice]

\* get_ai_advice, lines 268-296: the except clauses; raised tells whether an
\* exception leaves the handler (the membership test of line 281 on a message
\* that is not a string)
AdviceExcept(m, reply) ==
    CASE reply = "rate_limited" ->
           [module |-> [m EXCEPT !._rate_limit_until =
                                     m.now + _RATE_LIMIT_BACKOFF_SECONDS],
            raised |-> FALSE]
      [] reply = "quota" ->
           [module |-> [m EXCEPT !._rate_limit_until = m.now + 3600],
            raised |-> FALSE]
      [] reply = "bad_error_body" -> [module |-> m, raised |-> TRUE]
      [] OTHER -> [module |-> m, raised |-> FALSE]

\* get_ai_advice, lines 243-302: from the end of the awaited call to the
\* return (or the exception that propagates)
AdviceEnd(m, key, engine, reply) ==
    IF reply = "usable"
    THEN [module |-> InflightDiscard(CachePut(m, key, AiToFull(AiResult)), key),
          raised |-> FALSE, result |-> AiToFull(AiResult)]
    ELSE IF AdviceExcept(m, reply).raised
    THEN [module |-> InflightDiscard(AdviceExcept(m, reply).module, key),
          raised |-> TRUE, result |-> NoAdvice]
    ELSE [module |-> CachePut(InflightDiscard(AdviceExcept(m, reply).module, key),
                              key, EngineToFull(engine, "engine")),
          raised |-> FALSE, result |-> EngineToFull(engine, "engine")]

Requests == 1..MaxRequests

\* a caller awaits get_ai_advice(player_name, current_bid, state, engine_advice):
\* the coroutine returns at once (ret is what it returned) or awaits the
\* external call
AdviceCall(r, player_name, engine) ==
    /\ req[r].pc = "idle"
    /\ \E b \in {AdviceBegin(state, player_name, engine)} :
          /\ state' = b.module
          /\ IF b.awaiting
             THEN /\ req' = [req EXCEPT ![r] = [pc |-> "awaiting",
                                                player_name |-> player_name,
                                                engine |-> engine]]
                  /\ ret' = ret
             ELSE /\ req' = req
                  /\ ret' = [player_name |-> player_name, engine |-> engine,
                             outcome |-> b.outcome, raised |-> FALSE,
                             result |-> b.result]
    /\ UNCHANGED <<es, disk, buf, pc, acked, lastOp>>

\* the pause the handler of a 429 reply sets, lines 282-290: an hour for a
\* quota message, the backoff otherwise (a message that is not a string says
\* nothing of a quota)
CooldownOf ==
    [rate_limited |-> _RATE_LIMIT_BACKOFF_SECONDS,
     quota |-> 3600,
     bad_error_body |-> _RATE_LIMIT_BACKOFF_SECONDS]

\* the later of a time and the time recorded so far, if any
Later(t, recorded) ==
    IF recorded # << >> /\ recorded[1] > t THEN recorded[1] ELSE t

\* the awaited external call of a coroutine ends, and the coroutine with it;
\* acked records the end of the latest pause a 429 reply has called for
AdviceReply(r, reply) ==
    /\ req[r].pc = "awaiting"
    /\ \E e \in {AdviceEnd(state, CacheKey(req[r].player_name), req[r].engine, reply)} :
          /\ state' = e.module
          /\ ret' = [player_name |-> req[r].player_name, engine |-> req[r].engine,
                     outcome |-> reply, raised |-> e.raised, result |-> e.result]
    /\ req' = [req EXCEPT ![r] = NoTask]
    /\ acked' = IF reply \in DOMAIN CooldownOf
               THEN <<Later(state.now + CooldownOf[reply], acked)>>
               ELSE acked
    /\ UNCHANGED <<es, disk, buf, pc, lastOp>>

\* time.time() advances
AdviceTick ==
    /\ state.now < MaxMinutes * ClockStep
    /\ state' = [state EXCEPT !.now = @ + ClockStep]
    /\ UNCHANGED <<es, disk, buf, pc, req, acked, lastOp, ret>>

InitAdvisor ==
    /\ state \in {NewAdvisor(has_key) : has_key \in BOOLEAN}
    /\ es = NewEventStore
    /\ disk = << >>
    /\ buf = << >>
    /\ pc = "idle"
    /\ req = [r \in Requests |-> NoTask]
    /\ acked = << >>
    /\ lastOp = NoOp
    /\ ret = NoReturn

NextAdvisor ==
    \/ \E r \in Requests, n \in AdviceNames, e \in EngineAdvices : AdviceCall(r, n, e)
    \/ \E r \in Requests, reply \in Replies : AdviceReply(r, reply)
    \/ AdviceTick

SpecAdvisor == InitAdvisor /\ [][NextAdvisor]_vars

\* the coroutines whose external call for the key is outstanding
Outstanding(key) ==
    {r \in Requests : req[r].pc = "awaiting" /\ CacheKey(req[r].player_name) = key}

NoUsableResult ==
    {"no_key", "cooldown", "duplicate", "timeout", "transport", "malformed",
     "empty", "status_error", "rate_limited", "quota", "bad_error_body"}

\* C20 as stated: a request that got no usable result from the advisor
\* returns the engine's recommendation it was called with, and does not raise
C20_FallbackNeverRaises ==
    ret.outcome \in NoUsableResult =>
        /\ ~ret.raised
        /\ ret.result = EngineToFull(ret.engine, "engine")

\* C21 (first half): after a rate-limit failure of the external advisor (a
\* 429 reply), no external call is started for any player before the pause
\* that failure calls for has passed.
C21_NoCallDuringCooldown ==
    [][(\E r \in Requests : req[r].pc = "idle" /\ req'[r].pc = "awaiting")
          => (acked = << >> \/ state.now >= acked[1])]_vars

\* C22: clear() on an open log empties the log and resets the numbering to
\* zero: a replay that follows returns no events (and does not raise), and
\* the append that follows is recorded with sequence number 1.
C22_ClearEmptiesAndRenumbers ==
    [][(es._file /\ lastOp'.op = "clear") =>
          /\ disk' = << >>
          /\ es'._seq = 0
          /\ es'._file
          /\ EsReplay(es', disk') = [raised |-> FALSE, events |-> << >>]
          /\ EsWrite(es', "manual", LogPayload).out
                = <<RecordLine(1, "manual", LogPayload)>>]_vars

\* C22 witness: a replay returned events, the log was cleared, and the append
\* after that is the only line of the file and is numbered 1
C22_Witness ==
    /\ ret.events # << >>
    /\ lastOp.op = "append"
    /\ lastOp.status = "written"
    /\ disk = <<RecordLine(1, "manual", LogPayload)>>
    /\ es._seq = 1

(***************************************************************************)
(* Need multiplier                                                         *)
(***************************************************************************)
\* a dedicated slot of the player's position is open
DedicatedOpen(key, s) ==
    \E sl \in RosterSlots : /\ slot_base_type(sl) = Projection(key).position
                            /\ s.my_team.roster[sl] = None

\* some slot of any kind (dedicated, flexible or bench) accepting the
\* player's position is open
AnySlotOpen(key, s) ==
    \E sl \in RosterSlots :
        /\ Projection(key).position \in SLOT_ELIGIBILITY(slot_base_type(sl))
        /\ s.my_team.roster[sl] = None

\* C23 as stated: the need multiplier is 0.0 exactly when no open slot of any
\* kind accepts the player's position, and when only flexible or bench slots
\* remain open for the position it is reduced (below 1.0) but positive
C23_NeedZeroOnlyWithoutAnySlot ==
    \A k \in Keys :
        /\ calculate_need_multiplier(k, state) = 0 <=> ~AnySlotOpen(k, state)
        /\ (AnySlotOpen(k, state) /\ ~DedicatedOpen(k, state)) =>
               /\ calculate_need_multiplier(k, state) > 0
               /\ calculate_need_multiplier(k, state) < 1

\* C23 amended: the need multiplier takes two values only: 1.0 when a
\* dedicated or flexible (non-bench) slot accepting the player's position is
\* open, and 0.0 otherwise, that is when no slot is open or only bench slots
\* are.
C23_NeedIsStarterSlotOpen ==
    \A k \in Keys :
        calculate_need_multiplier(k, state) =
            IF NoStarterSlot(k, state) THEN 0 ELSE 1

\* C23 witness: both slots taking a running back in the lineup are occupied
\* and the bench is open: a slot is left for a running back and the need is
\* 0.0, while the quarterback, whose dedicated slot is open, has need 1.0
C23_Witness ==
    /\ state.my_team.roster["RB"] # None
    /\ state.my_team.roster["FLEX"] # None
    /\ state.my_team.roster["BENCH"] = None
    /\ AnySlotOpen("travis etienne", state)
    /\ calculate_need_multiplier("travis etienne", state) = 0
    /\ calculate_need_multiplier("josh allen", state) = 1

(***************************************************************************)
(* Bids well above the value                                               *)
(***************************************************************************)
\* the adjusted fair value of a player in tenths: the market value times the
\* need multiplier, which is 0 without an open starter slot and 1 with one
AdjustedValue(key, s) ==
    IF NoStarterSlot(key, s) THEN 0 ELSE MarketValue(key, s)

\* the whole-dollar bids around 1.15 times a value and around the value
BoundaryBids(v) ==
    {(115 * v) \div 1000 + d : d \in 0..1} \cup {v \div 10 + d : d \in 0..1}

\* the bids a valuation of the player is checked at
BidsFor(key, s) == QueryBids \cup BoundaryBids(AdjustedValue(key, s))

RECURSIVE EmptySlotsFrom(_, _)
EmptySlotsFrom(roster, i) ==
    IF i > Len(parsed_roster_slots) THEN 0
    ELSE (IF roster[parsed_roster_slots[i]] = None THEN 1 ELSE 0)
         + EmptySlotsFrom(roster, i + 1)

\* C25: in every state the maximum affordable bid is the budget minus one
\* dollar for each empty roster slot but one when more than one slot is
\* empty, and the budget otherwise; it never exceeds the budget, and the
\* budget left after paying it holds a dollar for each other empty slot.
C25_MaxBidReservesOtherSlots ==
    LET empty == EmptySlotsFrom(state.my_team.roster, 1)
        others == IF empty > 1 THEN empty - 1 ELSE 0
    IN /\ max_bid(state.my_team) = state.my_team.budget - others
       /\ max_bid(state.my_team) <= state.my_team.budget
       /\ state.my_team.budget - max_bid(state.my_team) >= others

\* C25 witness: two purchases have been paid for and two slots are empty, so
\* one dollar is held back
C25_Witness ==
    /\ EmptySlotsFrom(state.my_team.roster, 1) = 2
    /\ Len(state.my_team.players_acquired) = 2
    /\ state.my_team.budget < budget
    /\ max_bid(state.my_team) = state.my_team.budget - 1

(***************************************************************************)
(* VORP                                                                    *)
(***************************************************************************)
\* the undrafted players of the group
Undrafted(s) == {i \in 1..Len(s.pool) : ~s.pool[i].is_drafted}

\* the undrafted players no undrafted player of the group is projected above
TopProjected(s) ==
    {i \in Undrafted(s) :
        \A j \in Undrafted(s) : s.pool[j].projected_points <= s.pool[i].projected_points}

\* C26: in every reachable state the VORP of every player is at least 0, and
\* the top-projected undrafted player of a position has a VORP at least that
\* of every other undrafted player of the position.
C26_VorpNonNegativeAndMonotone ==
    /\ \A i \in 1..Len(state.pool) : state.pool[i].vorp >= 0
    /\ \A i \in TopProjected(state), j \in Undrafted(state) :
          state.pool[i].vorp >= state.pool[j].vorp

\* C26 witness: the best player of a group of three has been sold, and of the
\* two left the better projected one has a positive VORP and the other none
C26_Witness ==
    /\ Len(state.pool) = 3
    /\ Cardinality(Undrafted(state)) = 2
    /\ \E d \in 1..3 : /\ state.pool[d].is_drafted
                       /\ \A j \in 1..3 : state.pool[j].projected_points
                                             <= state.pool[d].projected_points
    /\ \E i \in TopProjected(state), j \in Undrafted(state) :
          /\ state.pool[i].vorp > 0
          /\ state.pool[j].vorp = 0

(***************************************************************************)
(* Names with a generational suffix                                        *)
(***************************************************************************)
\* the entries of a draft log naming the player
EntriesNaming(log, name) == SelectSeq(log, LAMBDA e : e.playerName = name)

\* C27: a sale entry naming the pool player "Travis Etienne" with an added
\* generational suffix, "Travis Etienne Jr.", is no key of the pool and
\* resolves to that player, and applying an update with such an entry marks
\* the player drafted: at the entry's price and team when the player was not
\* drafted before.
C27_SuffixedNameResolves ==
    /\ NormalizeName("Travis Etienne Jr.") \notin Keys
    /\ Resolve("Travis Etienne Jr.") = "travis etienne"
    /\ \A data \in Updates :
          EntriesNaming(data.draftLog, "Travis Etienne Jr.") # << >> =>
             LET after == UpdateFromDraftEvent(state, data).players["travis etienne"]
                 entry == EntriesNaming(data.draftLog, "Travis Etienne Jr.")[1]
             IN /\ after.is_drafted
                /\ ~state.players["travis etienne"].is_drafted =>
                      /\ after.draft_price = Some(entry.bidAmount)
                      /\ after.drafted_by_team
                            = ResolveTeamName(entry.teamId, data.teams)

\* C27 witness: the last operation was an update and the player is drafted at
\* the price of the entry that named him with the suffix
C27_Witness ==
    /\ lastOp.op = "draft_update"
    /\ state.players["travis etienne"].is_drafted
    /\ state.players["travis etienne"].draft_price = Some(30)
    /\ \E i \in 1..Len(disk) :
          /\ disk[i].type = "draft_update"
          /\ EntriesNaming(disk[i].payload.draftLog, "Travis Etienne Jr.") # << >>

(***************************************************************************)
(* Players without value over replacement                                  *)
(***************************************************************************)
\* C28: for a player whose VORP is 0 or less (a pool player at or below the
\* replacement level, or a name not in the pool) the advice is PASS for
\* every bid in every state; BUY and PRICE_ENFORCE are returned only for
\* players of positive VORP.
C28_NoVorpAlwaysPass ==
    \A n \in QueryNames :
        \A b \in IF GetPlayer(n) = None THEN QueryBids
                 ELSE QueryBids \cup BoundaryBids(MarketValue(GetPlayer(n), state)) :
            /\ get_engine_advice(n, b, state).vorp =
                   IF GetPlayer(n) = None THEN 0 ELSE Vorp(GetPlayer(n))
            /\ get_engine_advice(n, b, state).vorp <= 0
                   => get_engine_advice(n, b, state).action = "PASS"
            /\ get_engine_advice(n, b, state).action \in {"BUY", "PRICE_ENFORCE"}
                   => get_engine_advice(n, b, state).vorp > 0

\* C28 witness: a sale has been recorded, the running-back slot is open, and
\* the running back at the replacement level is passed without a bid and at
\* a bid of one dollar, where the running back above it is bought
C28_Witness ==
    /\ state.players["josh allen"].is_drafted
    /\ ~NoStarterSlot("travis etienne", state)
    /\ Vorp("travis etienne") = 0
    /\ MarketValue("travis etienne", state) > 10
    /\ get_engine_advice("Travis Etienne", 0, state).action = "PASS"
    /\ get_engine_advice("Travis Etienne", 1, state).action = "PASS"
    /\ get_engine_advice("Bijan Robinson", 1, state).action = "BUY"

(***************************************************************************)
(* Price enforcement                                                       *)
(***************************************************************************)
\* the smaller of two integers
Min(a, b) == IF a < b THEN a ELSE b

\* the bids below the market value of a player that are checked: the query
\* bids and the whole dollars just below the value
BidsBelow(key, s) ==
    {b \in QueryBids \cup {MarketValue(key, s) \div 10 - d : d \in 0..1} :
        b > 0 /\ 10 * b < MarketValue(key, s)}

ScarcitySale ==
    /\ state.drafted < state.size
    /\ state' = [state EXCEPT !.drafted = @ + 1]
    /\ lastOp' = [NoOp EXCEPT !.op = "sold"]
    /\ UNCHANGED <<es, disk, buf, pc, req, acked, ret>>

\* the sale of a player of the group is undone
ScarcityUndo ==
    /\ state.drafted > 0
    /\ state' = [state EXCEPT !.drafted = @ - 1]
    /\ lastOp' = [NoOp EXCEPT !.op = "undo"]
    /\ UNCHANGED <<es, disk, buf, pc, req, acked, ret>>

\* get_engine_advice, line 163: the multiplier of a player of the group
ScarcityQuery ==
    /\ ret' = [multiplier |-> ScarcityStep(state.drafted, state.size)]
    /\ lastOp' = [NoOp EXCEPT !.op = "scarcity"]
    /\ UNCHANGED <<state, es, disk, buf, pc, req, acked>>

InitScarcity ==
    /\ state \in {[size |-> n, drafted |-> 0] : n \in 1..MaxTierGroup}
    /\ es = NewEventStore
    /\ disk = << >>
    /\ buf = << >>
    /\ pc = "idle"
    /\ req = NoOp
    /\ acked = << >>
    /\ lastOp = NoOp
    /\ ret = [multiplier |-> 0]

NextScarcity ==
    \/ ScarcitySale
    \/ ScarcityUndo
    \/ ScarcityQuery

SpecScarcity == InitScarcity /\ [][NextScarcity]_vars

\* C30: the scarcity multiplier of a player is a step function of the
\* drafted share d/n of its (position, tier) group: 1.30 from 85% (17 in 20),
\* else 1.15 from 70% (7 in 10), else 1.05 from 50% (1 in 2), else 1.0, for
\* every group size n >= 1 and every d.
C30_ScarcityIsStepOfShare ==
    lastOp.op = "scarcity" =>
        ret.multiplier =
            CASE 20 * state.drafted >= 17 * state.size -> 130
              [] 20 * state.drafted < 17 * state.size
                 /\ 10 * state.drafted >= 7 * state.size -> 115
              [] 10 * state.drafted < 7 * state.size
                 /\ 2 * state.drafted >= state.size -> 105
              [] 2 * state.drafted < state.size -> 100

\* C30 witness: 17 of the 20 players of a group are drafted, exactly 85%,
\* and the multiplier computed is 1.30
C30_Witness ==
    /\ lastOp.op = "scarcity"
    /\ state = [size |-> 20, drafted |-> 17]
    /\ ret.multiplier = 130

(***************************************************************************)
(* C31.  A store that holds no open file (never opened, or closed) ignores *)
(* append; a store that was never given a path replays nothing, whatever   *)
(* the log file of earlier processes holds.                                *)
(***************************************************************************)
\* C31: append on a log that has not been opened writes nothing, raises
\* nothing and leaves the sequence counter unchanged, and replay on a store
\* whose path was never set returns the empty sequence
C31_UnopenedAppendAndReplay ==
    [][/\ (lastOp'.op = "append" /\ ~es._file) =>
              /\ lastOp'.status = "noop"
              /\ es' = es
              /\ disk' = disk
       /\ (lastOp'.op = "replay" /\ ~es._path) =>
              ret' = [raised |-> FALSE, events |-> << >>]]_vars

\* an append ignored by a store that was never opened, next to a log file
\* that holds records of an earlier process
C31_Witness ==
    /\ lastOp.op = "append"
    /\ lastOp.status = "noop"
    /\ ~es._path
    /\ es._seq = 0
    /\ Len(ValidRecords(disk)) > 0

(***************************************************************************)
(* Concurrent requests.  uvicorn runs the handlers as coroutines of one    *)
(* event loop: a coroutine keeps the loop from one await to the next, and  *)
(* another request runs only while every started one is suspended.  req[r] *)
(* is the position of request r in its handler; buf is << >> when the loop *)
(* is free and <<r>> while the coroutine of r is between two awaits; acked *)
(* lists the logged kinds of event in the order they were applied to the   *)
(* state.                                                                  *)
(***************************************************************************)
\* request bodies of the concurrent specification
ConcUpdates == {u \in Updates : u.teams = << >> /\ Len(u.draftLog) <= 1}

ConcCommands ==
    UndoCommands \cup BudgetCommands \cup JunkCommands
    \cup {c \in SoldCommands : c.name = "Travis Etienne"}

NoRequest == [pc |-> "none", type |-> "", payload |-> << >>, nominated |-> FALSE]

\* Yields that suspends the coroutine after every statement
YieldsMut(type, step) == TRUE

\* whether the handler awaits at the step: draft_update awaits only the
\* dashboard broadcast of line 301, manual_override awaits nothing
Yields(type, step) == type = "draft_update" /\ step = "broadcast"

\* the event loop runs a step of request r
MayRun(r) == buf = << >> \/ buf = <<r>>

\* who holds the loop after the step
Handoff(r, type, step) == IF Yields(type, step) THEN << >> ELSE <<r>>

\* POST /draft_update is received; nominated says whether the body carries
\* a currentNomination
ConcArriveUpdate(r, data, nominated) ==
    /\ buf = << >>
    /\ req[r].pc = "none"
    /\ req' = [req EXCEPT ![r] = [pc |-> "pending", type |-> "draft_update",
                                  payload |-> data, nominated |-> nominated]]
    /\ UNCHANGED <<state, es, disk, buf, pc, acked, lastOp, ret>>

\* POST /manual is received
ConcArriveManual(r, cmd) ==
    /\ buf = << >>
    /\ req[r].pc = "none"
    /\ req' = [req EXCEPT ![r] = [pc |-> "pending", type |-> "manual",
                                  payload |-> [command |-> cmd],
                                  nominated |-> FALSE]]
    /\ UNCHANGED <<state, es, disk, buf, pc, acked, lastOp, ret>>

\* draft_update, lines 202-216: update_from_draft_event and its recompute
ConcApplyUpdate(r) ==
    /\ MayRun(r)
    /\ req[r].pc = "pending"
    /\ req[r].type = "draft_update"
    /\ Room
    /\ state' = UpdateFromDraftEvent(state, req[r].payload)
    /\ acked' = Append(acked, [type |-> "draft_update", payload |-> req[r].payload])
    /\ req' = [req EXCEPT ![r].pc = "applied"]
    /\ buf' = Handoff(r, "draft_update", "apply")
    /\ UNCHANGED <<es, disk, pc, lastOp, ret>>

\* manual_override up to its append; a command that is not logged returns
ConcApplyManual(r) ==
    /\ MayRun(r)
    /\ req[r].pc = "pending"
    /\ req[r].type = "manual"
    /\ Room
    /\ \E m \in {ManualOverride(state, req[r].payload.command)} :
          /\ state' = m.state
          /\ IF m.logged
             THEN /\ acked' = Append(acked, [type |-> "manual",
                                              payload |-> req[r].payload])
                  /\ req' = [req EXCEPT ![r].pc = "applied"]
                  /\ buf' = Handoff(r, "manual", "apply")
             ELSE /\ acked' = acked
                  /\ req' = [req EXCEPT ![r] = NoRequest]
                  /\ buf' = << >>
    /\ UNCHANGED <<es, disk, pc, lastOp, ret>>

\* EventStore().append of lines 250, 374, 398 and of the sold branch
ConcAppend(r) ==
    /\ MayRun(r)
    /\ req[r].pc = "applied"
    /\ \E w \in {EsWrite(es, req[r].type, req[r].payload)} :
          es' = w.es /\ disk' = EsFlush(disk, w.out)
    /\ req' = [req EXCEPT ![r].pc = "appended"]
    /\ buf' = Handoff(r, req[r].type, "append")
    /\ UNCHANGED <<state, pc, acked, lastOp, ret>>

\* after the append: draft_update with a nomination reaches the await of
\* line 301, every other handler returns its response
ConcBroadcast(r) ==
    /\ MayRun(r)
    /\ req[r].pc = "appended"
    /\ IF req[r].type = "draft_update" /\ req[r].nominated
       THEN /\ req' = [req EXCEPT ![r].pc = "awaiting"]
            /\ buf' = Handoff(r, "draft_update", "broadcast")
       ELSE /\ req' = [req EXCEPT ![r] = NoRequest]
            /\ buf' = << >>
    /\ UNCHANGED <<state, es, disk, pc, acked, lastOp, ret>>

\* the broadcast is done and draft_update returns, line 306
ConcReturn(r) ==
    /\ MayRun(r)
    /\ req[r].pc = "awaiting"
    /\ req' = [req EXCEPT ![r] = NoRequest]
    /\ buf' = << >>
    /\ UNCHANGED <<state, es, disk, pc, acked, lastOp, ret>>

InitConc ==
    /\ \E started \in {Lifespan(<< >>)} :
          state = started.state /\ es = started.es
    /\ disk = << >>
    /\ buf = << >>
    /\ pc = "idle"
    /\ req = [r \in Requests |-> NoRequest]
    /\ acked = << >>
    /\ lastOp = NoOp
    /\ ret = NoRet

NextConc ==
    \/ \E r \in Requests, data \in ConcUpdates, nominated \in BOOLEAN :
          ConcArriveUpdate(r, data, nominated)
    \/ \E r \in Requests, cmd \in ConcCommands : ConcArriveManual(r, cmd)
    \/ \E r \in Requests : ConcApplyUpdate(r)
    \/ \E r \in Requests : ConcApplyManual(r)
    \/ \E r \in Requests : ConcAppend(r)
    \/ \E r \in Requests : ConcBroadcast(r)
    \/ \E r \in Requests : ConcReturn(r)

SpecConc == InitConc /\ [][NextConc]_vars

\* the events of the log file, in file order
LoggedEvents(lines) ==
    [i \in 1..Len(lines) |-> [type |-> lines[i].type, payload |-> lines[i].payload]]

\* C32: a request that has mutated the state and not yet appended its record
\* holds the event loop, so no other request runs in between, and the
\* records of the log are the applied events in the order they were applied
C32_LogOrderIsApplyOrder ==
    /\ \A r \in Requests : req[r].pc = "applied" => buf = <<r>>
    /\ Len(disk) <= Len(acked)
    /\ LoggedEvents(disk) = SubSeq(acked, 1, Len(disk))
    /\ buf = << >> => LoggedEvents(disk) = acked
    /\ \A i \in 1..Len(disk) : disk[i].seq = i

\* a manual command was applied and logged while an update request that had
\* been applied and logged before it was still suspended at its broadcast
C32_Witness ==
    /\ \E r \in Requests : req[r].pc = "awaiting" /\ req[r].payload.draftLog # << >>
    /\ Len(disk) = 2
    /\ disk[1].type = "draft_update"
    /\ disk[2].type = "manual"
    /\ state # LoadedState

(***************************************************************************)
(* The external source.  The draft room keeps a cumulative log of the      *)
(* completed sales (buf) and the extension posts the whole log on every    *)
(* poll.  acked is the set of players whose sale was undone by a manual    *)
(* command and of whom no new sale has been recorded since.                *)
(***************************************************************************)
\* the draft room records a sale; a player is sold there once
FeedSale(entry) ==
    /\ Len(buf) < MaxLog
    /\ \A i \in 1..Len(buf) : buf[i].playerName # entry.playerName
    /\ buf' = Append(buf, entry)
    /\ acked' = acked \ {EntryKey(entry.playerName)}
    /\ lastOp' = [NoOp EXCEPT !.op = "sale", !.name = entry.playerName]
    /\ UNCHANGED <<state, es, disk, pc, req, ret>>

\* the extension polls the draft room and posts the cumulative log
FeedPoll(teams) == DraftUpdateH([teams |-> teams, draftLog |-> buf])

\* POST /manual, with the undone players noted
FeedManual(cmd) ==
    /\ \E r \in {ManualOverride(state, cmd)} :
          /\ state' = r.state
          /\ \E w \in {IF r.logged THEN EsWrite(es, "manual", [command |-> cmd])
                        ELSE [es |-> es, out |-> << >>]} :
                es' = w.es /\ disk' = EsFlush(disk, w.out)
          /\ lastOp' = [op |-> "manual", status |-> r.status,
                        action |-> r.action, name |-> cmd.name]
          /\ acked' = IF r.status # "ok" THEN acked
                      ELSE IF r.action = "undo" THEN acked \cup {GetPlayer(cmd.name)}
                      ELSE IF r.action = "sold" THEN acked \ {GetPlayer(cmd.name)}
                      ELSE acked
    /\ UNCHANGED <<buf, pc, req, ret>>

InitFeed ==
    /\ state = LoadedState
    /\ es = NewEventStore
    /\ disk = << >>
    /\ buf = << >>
    /\ pc = "idle"
    /\ req = NoOp
    /\ acked = {}
    /\ lastOp = NoOp
    /\ ret = NoRet

NextFeed ==
    \/ \E entry \in Entries : FeedSale(entry)
    \/ \E teams \in TeamLists : FeedPoll(teams)
    \/ \E cmd \in UndoCommands \cup SoldCommands \cup BudgetCommands : FeedManual(cmd)

SpecFeed == InitFeed /\ [][NextFeed]_vars

\* C33 as stated: a player whose sale was undone stays undrafted through the
\* polls that resend the undone sale, until a new sale of the player is
\* recorded by the draft room or by a manual command
C33_UndoneStaysUndrafted ==
    \A k \in acked : ~state.players[k].is_drafted

(***************************************************************************)
(* C34.  What an update does to the players that were drafted before it.   *)
(***************************************************************************)
\* the entries of a draft log that name the player of the key
EntriesOf(log, key) ==
    {i \in 1..Len(log) : EntryKey(log[i].playerName) = key}

\* C34: a draft update leaves the price and the team of every player that
\* was drafted before it as they were, keeps the occupant of every occupied
\* roster slot, and puts no player that was drafted before into a slot
C34_UpdateKeepsDraftedPlayers ==
    [][lastOp'.op = "draft_update" =>
          /\ \A k \in Keys :
                state.players[k].is_drafted => state'.players[k] = state.players[k]
          /\ \A sl \in RosterSlots :
                IF state.my_team.roster[sl] # None
                THEN state'.my_team.roster[sl] = state.my_team.roster[sl]
                ELSE state'.my_team.roster[sl] # None =>
                        ~state.players[EntryKey(state'.my_team.roster[sl])].is_drafted]_vars

\* the update just applied lists, for my team at another price, a player a
\* manual command had sold before; the player and the roster are as the
\* manual sale left them
C34_Witness ==
    /\ lastOp.op = "draft_update"
    /\ Len(disk) = 2
    /\ disk[1].type = "manual"
    /\ \E k \in Keys :
          /\ state.players[k].is_drafted
          /\ state.players[k].drafted_by_team = "Unknown Team"
          /\ \E i \in EntriesOf(disk[2].payload.draftLog, k) :
                /\ disk[2].payload.draftLog[i].teamId = 1
                /\ Some(disk[2].payload.draftLog[i].bidAmount) # state.players[k].draft_price
    /\ \A sl \in RosterSlots : state.my_team.roster[sl] = None

(***************************************************************************)
(* C35.  The closed state of the log: the store has a path and no file     *)
(* object, which is what close() leaves behind after open(path).           *)
(***************************************************************************)
\* the store was opened and then closed
Closed(e) == e._path /\ ~e._file

\* C35 as stated: from the closed state, an operation other than open (by
\* this process) leaves the log closed and writes no record to the file
C35_ClosedUntilOpen ==
    [][(Closed(es) /\ lastOp'.op \in {"append", "replay", "clear", "close"}) =>
          /\ Closed(es')
          /\ Len(ValidRecords(disk')) <= Len(ValidRecords(disk))
          /\ lastOp'.op = "append" => (lastOp'.status = "noop" /\ disk' = disk)]_vars

(***************************************************************************)
(* C36.  open(path) called again on the store of the running process.      *)
(***************************************************************************)
\* C36 as stated, for files all of whose lines are valid records: open on a
\* store that was opened before sets the counter to the number of records
\* in the file, so that the next append is numbered one more
C36_ReopenResumesAtRecordCount ==
    [][(lastOp'.op = "open" /\ es._path
        /\ \A i \in 1..Len(disk) : disk[i].kind = "record") =>
          es'._seq = Len(disk)]_vars

(***************************************************************************)
(* Startup recovery on a damaged log.  The file found at startup holds     *)
(* JSON objects, some of which are not the records append writes: flaw     *)
(* says what is wrong with a line ("" nothing, "no_type" the key "type"    *)
(* is absent, "no_payload" the key "payload" is absent, "bad_payload" the  *)
(* payload is not a valid DraftUpdate).  pc is "idle" while no process     *)
(* runs, "serving" once lifespan has reached its yield and "aborted" when  *)
(* lifespan raised.                                                        *)
(***************************************************************************)
\* the events a damaged log may hold, before they are numbered
RecoveryEvents ==
    { [type |-> "draft_update", flaw |-> "",
       payload |-> [teams |-> << >>,
                    draftLog |-> <<[playerName |-> "Bijan Robinson",
                                    teamId |-> 1, bidAmount |-> 50]>>]],
      [type |-> "draft_update", flaw |-> "bad_payload", payload |-> NoData],
      [type |-> "draft_update", flaw |-> "no_payload", payload |-> NoData],
      [type |-> "manual", flaw |-> "",
       payload |-> [command |-> Cmd("", "Jalen Hurts", Some(20), Some(3))]],
      [type |-> "manual", flaw |-> "",
       payload |-> [command |-> Cmd("budget", "", Some(0), NoInt)]],
      [type |-> "manual", flaw |-> "no_payload", payload |-> [command |-> NoCmd]],
      [type |-> "snapshot", flaw |-> "", payload |-> NoData],
      [type |-> "", flaw |-> "no_type", payload |-> NoData] }

\* the file that holds the events, numbered from 1
DamagedLog(events) ==
    [i \in 1..Len(events) |->
        [kind |-> "record", seq |-> i, type |-> events[i].type,
         payload |-> events[i].payload, flaw |-> events[i].flaw]]

\* lifespan, lines 89-101, for one event: the state afterwards and whether
\* an exception left the loop.  event["type"] (line 89) and event["payload"]
\* of a manual event (line 97) are evaluated outside any try; the payload of
\* an update is read and validated inside the try of lines 90-95
ReplayStep(s, event) ==
    IF event.flaw = "no_type"
    THEN [state |-> s, raised |-> TRUE]
    ELSE IF event.type = "draft_update"
    THEN IF event.flaw \in {"no_payload", "bad_payload"}
         THEN [state |-> s, raised |-> FALSE]
         ELSE [state |-> ReplayEvent(s, event), raised |-> FALSE]
    ELSE IF event.type = "manual"
    THEN IF event.flaw = "no_payload"
         THEN [state |-> s, raised |-> TRUE]
         ELSE [state |-> ReplayEvent(s, event), raised |-> FALSE]
    ELSE [state |-> s, raised |-> FALSE]

\* lifespan, lines 86-101: the loop, left by the first exception
RECURSIVE RecoverEvents(_, _)
RecoverEvents(s, events) ==
    IF events = << >> THEN [state |-> s, raised |-> FALSE]
    ELSE CHOOSE after \in
           {IF step.raised THEN step ELSE RecoverEvents(step.state, Tail(events)) :
               step \in {ReplayStep(s, Head(events))}} : TRUE

\* a process starts: lifespan loads the projections, opens the log and
\* replays it
RecoverStart ==
    /\ pc = "idle"
    /\ \E store \in {EsOpen(NewEventStore, disk)} :
          \E replayed \in {EsReplay(store, disk)} :
             \E done \in {RecoverEvents(LoadedState, replayed.events)} :
                /\ state' = done.state
                /\ es' = store
                /\ pc' = IF replayed.raised \/ done.raised THEN "aborted" ELSE "serving"
    /\ lastOp' = [NoOp EXCEPT !.op = "startup"]
    /\ UNCHANGED <<disk, buf, req, acked, ret>>

\* the process ends
RecoverStop ==
    /\ pc \in {"serving", "aborted"}
    /\ state' = LoadedState
    /\ es' = NewEventStore
    /\ pc' = "idle"
    /\ lastOp' = [NoOp EXCEPT !.op = "exit"]
    /\ UNCHANGED <<disk, buf, req, acked, ret>>

InitRecover ==
    /\ state = LoadedState
    /\ es = NewEventStore
    /\ disk \in {DamagedLog(events) : events \in SeqsUpTo(RecoveryEvents, MaxLines)}
    /\ buf = << >>
    /\ pc = "idle"
    /\ req = NoOp
    /\ acked = << >>
    /\ lastOp = NoOp
    /\ ret = NoRet

NextRecover ==
    \/ RecoverStart
    \/ RecoverStop

SpecRecover == InitRecover /\ [][NextRecover]_vars

\* the events recovery can apply: complete records of a known kind
Applicable(events) ==
    SelectSeq(events, LAMBDA e : e.flaw = "" /\ e.type \in {"draft_update", "manual"})

\* C37 as stated: startup does not abort, whatever single events of the log
\* cannot be applied, and the state it builds is the result of applying all
\* the other events in order
C37_RecoverySkipsBadEvents ==
    lastOp.op = "startup" =>
        /\ pc = "serving"
        /\ state = ReplayEvents(LoadedState, Applicable(disk))

(***************************************************************************)
(* C38.  What a call returns under the source "engine".                    *)
(***************************************************************************)
\* C38 as stated: advice returned with source "engine" has the action and
\* the max bid of the engine recommendation passed to the call that returns
\* it
C38_EngineAdviceIsOfThisCall ==
    (ret # NoReturn /\ ~ret.raised /\ ret.result.source = "engine") =>
        /\ ret.result.action = ret.engine.action
        /\ ret.result.max_bid = ret.engine.max_bid

(***************************************************************************)
(* C39.  The ceiling of a BUY at an active bid.                            *)
(***************************************************************************)
\* the valuations of known players at positive bids that return BUY
BuyQueries ==
    {q \in UNION {{<<n, b>> : b \in BidsFor(GetPlayer(n), state) \ {0}} :
                     n \in {m \in QueryNames : GetPlayer(m) # None}} :
        get_engine_advice(q[1], q[2], state).action = "BUY"}

\* C39 as stated: a BUY at an active bid b > 0 has a max bid of at least b
C39_BuyCeilingCoversBid ==
    \A q \in BuyQueries : get_engine_advice(q[1], q[2], state).max_bid >= q[2]

\* C39 amended: a BUY at an active bid b > 0 has the max bid min(ceiling,
\* maximum affordable bid), the ceiling being the whole dollars of the
\* adjusted fair value v when b <= v and of 1.10 v when b > v; the max bid
\* never exceeds the maximum affordable bid and is at least b when b <= v
\* and the team can afford b
C39_BuyCeiling ==
    \A q \in BuyQueries :
        LET v == AdjustedValue(GetPlayer(q[1]), state)
            b == q[2]
            ceiling == IF 10 * b > v THEN (110 * v) \div 1000 ELSE v \div 10
            affordable == max_bid(state.my_team)
        IN \E a \in {get_engine_advice(q[1], b, state)} :
              /\ 1000 * b <= 115 * v
              /\ a.max_bid = Min(ceiling, affordable)
              /\ a.max_bid <= affordable
              /\ (10 * b <= v /\ b <= affordable) => a.max_bid >= b

\* C39 witness: one valuation returns BUY at a bid above 1.10 times the
\* value with the affordable ceiling of 1.10 times the value, below the bid,
\* and another returns BUY at a bid below the value with a max bid no less
C39_Witness ==
    /\ \E q \in BuyQueries :
          LET v == AdjustedValue(GetPlayer(q[1]), state)
          IN /\ 100 * q[2] > 11 * v
             /\ get_engine_advice(q[1], q[2], state).max_bid = (110 * v) \div 1000
             /\ get_engine_advice(q[1], q[2], state).max_bid < q[2]
    /\ \E q \in BuyQueries :
          /\ 10 * q[2] < AdjustedValue(GetPlayer(q[1]), state)
          /\ get_engine_advice(q[1], q[2], state).max_bid >= q[2]

(***************************************************************************)
(* Valuation queries.  get_engine_advice reads the store; the one thing    *)
(* written on its way is the lookup cache of the name resolver, filled by  *)
(* get_player when the name is not a key of the pool.  Here buf is that    *)
(* cache (raw incoming name -> canonical key or None) and ret the advice   *)
(* of the last query.                                                      *)
(***************************************************************************)
\* the names valuations are asked for: pool names, a feed spelling that only
\* the resolver matches, and a name nobody matches
ValuationNames == QueryNames \cup {"Travis Etienne Jr."}

\* get_engine_advice, lines 149-158: the advice for a name get_player does
\* not find
UnknownAdvice ==
    [action |-> "PASS", max_bid |-> 0, fmv |-> 0, vorp |-> 0, known |-> FALSE]

\* ResolveCached that remembers a miss for every name it is asked
ResolveCachedMut(cache, incoming_name) ==
    [key |-> Resolve(incoming_name), cache |-> (incoming_name :> None) @@ cache]

\* NameResolver.resolve, lines 96-132, with its cache
ResolveCached(cache, incoming_name) ==
    IF incoming_name = "" THEN [key |-> None, cache |-> cache]
    ELSE IF incoming_name \in DOMAIN cache
    THEN [key |-> cache[incoming_name], cache |-> cache]
    ELSE [key |-> Resolve(incoming_name),
          cache |-> (incoming_name :> Resolve(incoming_name)) @@ cache]

\* DraftState.get_player with the resolver's cache
GetPlayerCached(cache, name) ==
    IF NormalizeName(name) \in Keys
    THEN [key |-> NormalizeName(name), cache |-> cache]
    ELSE CHOOSE found \in
           {[key |-> IF r.key # None /\ r.key \in Keys THEN r.key ELSE None,
             cache |-> r.cache] : r \in {ResolveCached(cache, name)}} : TRUE

\* update_from_draft_event, lines 270-274: the cache after the names of the
\* draft log were looked up
RECURSIVE CacheAfterLog(_, _)
CacheAfterLog(cache, log) ==
    IF log = << >> THEN cache
    ELSE CacheAfterLog(IF NormalizeName(Head(log).playerName) \in Keys THEN cache
                       ELSE ResolveCached(cache, Head(log).playerName).cache,
                       Tail(log))

\* a valuation of the player at the bid (GET /advice, the nom command, the
\* nomination of an update): get_engine_advice finds the player and reads
\* the store; no statement of it or of the functions it calls assigns to the
\* store
ValuationQuery(player_name, current_bid) ==
    /\ \E found \in {GetPlayerCached(buf, player_name)} :
          /\ buf' = found.cache
          /\ ret' = IF found.key = None
                    THEN UnknownAdvice
                    ELSE get_engine_advice(Projection(found.key).player_name,
                                           current_bid, state)
    /\ state' = state
    /\ lastOp' = [NoOp EXCEPT !.op = "advice", !.name = player_name]
    /\ UNCHANGED <<es, disk, pc, req, acked>>

\* POST /draft_update
ValuationUpdate(data) ==
    /\ state' = UpdateFromDraftEvent(state, data)
    /\ buf' = CacheAfterLog(buf, data.draftLog)
    /\ lastOp' = [NoOp EXCEPT !.op = "draft_update"]
    /\ UNCHANGED <<es, disk, pc, req, acked, ret>>

InitValuation ==
    /\ state = LoadedState
    /\ es = NewEventStore
    /\ disk = << >>
    /\ buf = EmptyDict
    /\ pc = "idle"
    /\ req = NoOp
    /\ acked = << >>
    /\ lastOp = NoOp
    /\ ret = UnknownAdvice

NextValuation ==
    \/ \E n \in ValuationNames, b \in QueryBids : ValuationQuery(n, b)
    \/ \E data \in ConcUpdates : ValuationUpdate(data)

SpecValuation == InitValuation /\ [][NextValuation]_vars

====
